---- MODULE Spec2Model ----
(***************************************************************************)
(* A model of the go-quai node core: the Slice (hierarchical append), the  *)
(* calls between the slices of a hierarchy, the inbound ETX set, the       *)
(* genesis vesting allocator and its ledger step, the price-and-nonce      *)
(* transaction queue and the progpow header verifier.                      *)
(* Each component has its own specification over its own variables; the    *)
(* variables of the other components stay at their idle values.            *)
(***************************************************************************)
EXTENDS Integers, Sequences, FiniteSets, TLC

VARIABLES
    \* ---- core/types/etx_set.go ----
    etxSet,        \* EtxSet: ETX hash -> Height of the stored entry
    etxFirst,      \* history: hash -> height at which the stored entry was first inserted
    etxLast,       \* history: hash -> height of the latest insertion of the hash
    etxMaxSince,   \* history: hash -> greatest currentHeight of an Update since the latest insertion
    etxHeight,     \* history: currentHeight of the latest Update (0 before any)
    etxMonotone,   \* history: no Update so far was called with a smaller height than the one before
    etxCall,       \* history: the arguments of the latest Update
    \* ---- core/genallocs/genesis_alloc.go, StateDB.AddLockedBalances ----
    genBpm,        \* params.BlocksPerMonth
    genAccount,    \* the GenesisAccount
    genPc,         \* "decoded" -> "allocated", or "panic"
    genBlock,      \* number of the last block AddLockedBalances was invoked for
    genBalance,    \* balance of the account in state
    genCredited,   \* history: schedule keys whose amount has been credited
    \* ---- core/types/transaction.go: TransactionsByPriceAndNonce ----
    txInput,       \* history: the map NewTransactionsByPriceAndNonce was given
    txs,           \* t.txs: sender -> nonce-sorted list of the remaining transactions
    heads,         \* t.heads: the price heap, a sequence of TxWithMinerFee
    txPc,          \* "input" -> "built" -> "used", or "panic"
    txPeeked,      \* result of the latest Peek (Nil for nil)
    txOp,          \* history: the latest call on the queue and its account argument
    \* ---- consensus/progpow/consensus.go: VerifyHeader ----
    vhIn,          \* the header, its parent and the engine VerifyHeader is called with
    vhResult,      \* "pending", then "nil" or the error returned
    exIn,          \* the Prime header and parent whose expansion fields verifyHeader checks
    exResult,      \* "pending", then "nil" or the error of that check
    cdIn,          \* the parent and grandparent CalcDifficulty is called with
    cdResult,      \* "pending", then what CalcDifficulty returned
    zoneChain,     \* the Zone headers verifyHeader has accepted, from the genesis block on
    ptResult,      \* what verifyHeader returned for the latest header offered
    \* ---- core/chain_makers.go: Slice ----
    nodeCtx,               \* common.NodeLocation.Context()
    dbHeaders,             \* hashes of the headers in the header chain (sliceDb)
    dbTermini,             \* rawdb termini: hash -> <<sub0, sub1, sub2, terminus>>
    dbTd,                  \* rawdb total difficulty: hash -> td
    currentHead,           \* sl.hc.CurrentHeader().Hash()
    phCache,               \* sl.phCache: terminus hash -> PendingHeader
    pendingHeaderHeadHash, \* sl.pendingHeaderHeadHash
    futureHeaders,         \* keys of sl.futureHeaders
    phCachemu,             \* sl.phCachemu: Nil, or the caller holding it exclusively
    pc,                    \* where each Append call stands
    call,                  \* arguments and locals of each Append call
    lastEvent,             \* the chain-head or chain-side event the latest step sent, if any
    appendResult,          \* what the Append that returned in the latest step returned, if any
    minerFeed,             \* what the latest step sent on the pending header feed, if anything
    relay,                 \* the SubRelayPendingHeader call of the latest step, if any
    reader,                \* the GetPendingHeader call in progress
    sweep,                 \* the procfutureHeaders call in progress
    addResult,             \* what the addfutureHeader of the latest step returned, if any
    \* ---- core/chain_makers.go: the slices of a hierarchy calling each other ----
    hLock,                 \* per node, the thread holding its sl.phCachemu, or Nil
    hStack,                \* per thread, the calls in progress, the innermost last
    \* ---- core/chain_makers.go: pending ETXs and CollectNewlyConfirmedEtxs ----
    pendingEtxs,           \* sl.pendingEtxs: header hash -> <<prime, region, zone>> ETX lists
    dbPendingEtxs,         \* rawdb pending ETXs: header hash -> <<prime, region, zone>>
    cnIn,                  \* the chain, block and location CollectNewlyConfirmedEtxs is called with
    cnResult,              \* what the latest call returned, if any has
    \* ---- consensus/progpow/consensus.go: VerifyHeaders ----
    vbIn,          \* the batch: its headers' verification outcomes, GOMAXPROCS, the mode
    inputs,        \* "open" or "closed": the unbuffered channel of indices to verify
    done,          \* the buffered channel of verified indices
    errors,        \* the errors slice: per index, the outcome once a worker has written it
    errorsOut,     \* everything sent on the results channel, in the order sent
    abort,         \* whether the caller has closed the abort channel
    dispatcher,    \* the dispatcher goroutine: its position and locals
    worker         \* the worker goroutines: position and index of each

etxVars == <<etxSet, etxFirst, etxLast, etxMaxSince, etxHeight, etxMonotone,
            etxCall>>
genVars == <<genBpm, genAccount, genPc, genBlock, genBalance, genCredited>>
txVars == <<txInput, txs, heads, txPc, txPeeked, txOp>>
vhVars == <<vhIn, vhResult, exIn, exResult, cdIn, cdResult, zoneChain, ptResult>>
batchVars == <<vbIn, inputs, done, errors, errorsOut, abort, dispatcher, worker>>
nodeVars == <<nodeCtx, dbHeaders, dbTermini, dbTd, currentHead, phCache,
              pendingHeaderHeadHash, futureHeaders, phCachemu, pc, call, appendResult,
              lastEvent, minerFeed, relay, reader, sweep, addResult>>
hierVars == <<hLock, hStack>>
pendVars == <<pendingEtxs, dbPendingEtxs, cnIn, cnResult>>
sliceVars == <<nodeVars, hierVars, pendVars>>
vars == <<etxVars, genVars, txVars, vhVars, batchVars, sliceVars>>

Nil == 0

RECURSIVE SumOver(_, _)
SumOver(f, S) ==
    IF S = {} THEN 0
    ELSE LET k == CHOOSE x \in S : TRUE IN f[k] + SumOver(f, S \ {k})

Max(a, b) == IF a >= b THEN a ELSE b

(***************************************************************************)
(*                      EtxSet (core/types/etx_set.go)                     *)
(***************************************************************************)
EtxExpirationAge == 8640

\* Bounds of the ETX model.
MaxEtx == 2            \* ETX hashes 1..MaxEtx
MaxEtxBatch == 1       \* longest newInboundEtxs
EtxBaseHeight == 100   \* first block height an Update is called with
MaxHeightStep == 0     \* heights sampled after the base and after the expiry boundary

EtxHashes == 1..MaxEtx
NodeLocation == "zone-0-0"
OtherLocation == "zone-0-1"

\* etx.ToChain(): the destination is part of the transaction, so it is a
\* function of the hash.  The last hash is addressed to another zone.
EtxToChain(e) == IF e = MaxEtx THEN OtherLocation ELSE NodeLocation

\* Block heights Update is called with: around the arrival height and around
\* arrival + EtxExpirationAge.  All far below the uint64 range.
EtxHeights ==
    (EtxBaseHeight .. EtxBaseHeight + MaxHeightStep)
    \cup (EtxBaseHeight + EtxExpirationAge - 1 ..
            EtxBaseHeight + EtxExpirationAge + 1 + MaxHeightStep)

EtxBatches == UNION {[1..n -> EtxHashes] : n \in 0..MaxEtxBatch}

EtxPut(set, e, h) == [x \in DOMAIN set \cup {e} |-> IF x = e THEN h ELSE set[x]]

\* set[etx.Hash()] = &EtxSetEntry{currentHeight, etx}
EtxStore(set, e, h) == EtxPut(set, e, h)

\* an Update that skips no ETX
EtxAcceptedAny(e) == TRUE

\* etx.ToChain().Equal(common.NodeLocation)
EtxAccepted(e) == EtxToChain(e) = NodeLocation

\* "Add new ETX entries to the inbound set": the first loop of Update
RECURSIVE EtxAddNew(_, _, _)
EtxAddNew(set, etxs, h) ==
    IF etxs = <<>> THEN set
    ELSE LET e == Head(etxs)
             next == IF EtxAccepted(e) THEN EtxStore(set, e, h) ELSE set
         IN EtxAddNew(next, Tail(etxs), h)

\* mutant: expiry one block early
EtxExpiredEarly(height, currentHeight) == currentHeight >= height + EtxExpirationAge

\* expiry one block late
EtxExpiredLate(height, currentHeight) == currentHeight > height + EtxExpirationAge + 1

\* currentHeight > entry.Height + EtxExpirationAge
EtxExpired(height, currentHeight) == currentHeight > height + EtxExpirationAge

\* "Remove expired ETXs": the second loop of Update
EtxRemoveExpired(set, h) ==
    [x \in {y \in DOMAIN set : ~EtxExpired(set[y], h)} |-> set[x]]

EtxUpdateResult(set, etxs, h) == EtxRemoveExpired(EtxAddNew(set, etxs, h), h)

EtxStored(etxs) == {etxs[i] : i \in {j \in DOMAIN etxs : EtxToChain(etxs[j]) = NodeLocation}}

EtxInit ==
    /\ etxSet = <<>>
    /\ etxFirst = [e \in EtxHashes |-> Nil]
    /\ etxLast = [e \in EtxHashes |-> Nil]
    /\ etxMaxSince = [e \in EtxHashes |-> Nil]
    /\ etxHeight = 0
    /\ etxMonotone = TRUE
    /\ etxCall = [etxs |-> <<>>, h |-> 0]

\* EtxSet.Update(newInboundEtxs, currentHeight)
EtxUpdate(etxs, h) ==
    /\ etxSet' = EtxUpdateResult(etxSet, etxs, h)
    /\ etxFirst' = [e \in EtxHashes |->
                      IF e \in EtxStored(etxs) /\ e \notin DOMAIN etxSet THEN h
                      ELSE etxFirst[e]]
    /\ etxLast' = [e \in EtxHashes |-> IF e \in EtxStored(etxs) THEN h ELSE etxLast[e]]
    /\ etxMaxSince' = [e \in EtxHashes |->
                      IF e \in EtxStored(etxs) THEN h
                      ELSE IF etxLast[e] = Nil THEN Nil
                      ELSE Max(etxMaxSince[e], h)]
    /\ etxHeight' = h
    /\ etxMonotone' = (etxMonotone /\ h >= etxHeight)
    /\ etxCall' = [etxs |-> etxs, h |-> h]
    /\ UNCHANGED <<genVars, txVars, vhVars, batchVars, sliceVars>>

EtxNext == \E etxs \in EtxBatches, h \in EtxHeights : EtxUpdate(etxs, h)

\* C8: an entry inserted at height a and not re-inserted is present as long as
\* every Update since had currentHeight <= a + 8640, and is absent right after
\* an Update with currentHeight = a + 8641.
C8_EtxExpiryBoundary ==
    \A e \in EtxHashes :
        etxLast[e] # Nil =>
            /\ (etxMaxSince[e] <= etxLast[e] + 8640 => e \in DOMAIN etxSet)
            /\ (etxHeight = etxLast[e] + 8641 => e \notin DOMAIN etxSet)

\* an entry inserted at the base height is still there after an Update at base + 8640
C8_Witness ==
    \E e \in EtxHashes :
        /\ etxLast[e] = EtxBaseHeight
        /\ etxHeight = EtxBaseHeight + 8640
        /\ e \in DOMAIN etxSet

\* C9: the earlier insertion wins: a stored entry keeps the arrival height of
\* the insertion that put it into the set, whatever is passed to Update later.
C9_EarlierInsertionWins ==
    \A e \in DOMAIN etxSet : etxSet[e] = etxFirst[e]


\* C23: after any sequence of Update calls with non-decreasing heights, where h
\* is the height of the latest call, every stored entry e satisfies
\* e.Height <= h <= e.Height + 8640.
C23_StoredWithinAge ==
    etxMonotone =>
        \A e \in DOMAIN etxSet :
            /\ etxSet[e] <= etxHeight
            /\ etxHeight <= etxSet[e] + 8640

\* an entry of the base height survives a later Update at exactly base + 8640
C23_Witness ==
    /\ etxMonotone
    /\ etxHeight = EtxBaseHeight + 8640
    /\ \E e \in DOMAIN etxSet : etxSet[e] = EtxBaseHeight

\* C24: Update inserts, keyed by hash with the current height, exactly those new
\* inbound ETXs whose destination location equals the node location; an ETX
\* addressed to any other location is never present in the set after the call.
C24_OnlyInboundHere ==
    [][LET etxs == etxCall'.etxs
           new == {etxs[i] : i \in DOMAIN etxs}
       IN /\ \A e \in new : EtxToChain(e) = NodeLocation =>
                (e \in DOMAIN etxSet' /\ etxSet'[e] = etxCall'.h)
          /\ \A e \in DOMAIN etxSet' :
                (e \notin DOMAIN etxSet \/ etxSet'[e] # etxSet[e]) =>
                    (e \in new /\ EtxToChain(e) = NodeLocation)
          /\ \A e \in EtxHashes : EtxToChain(e) # NodeLocation => e \notin DOMAIN etxSet'
      ]_vars

\* the latest Update was given an ETX of another zone and the set does not hold it,
\* while it holds an ETX of this zone
C24_Witness ==
    /\ \E i \in DOMAIN etxCall.etxs : EtxToChain(etxCall.etxs[i]) = OtherLocation
    /\ \E e \in DOMAIN etxSet : EtxToChain(e) = NodeLocation
    /\ \A e \in DOMAIN etxSet : EtxToChain(e) # OtherLocation

(***************************************************************************)
(*   GenesisAllocator (core/genallocs/genesis_alloc.go) and the ledger     *)
(*   step StateDB.AddLockedBalances                                        *)
(***************************************************************************)
\* Bounds of the allocator model.
MaxBlocksPerMonth == 2   \* params.BlocksPerMonth is drawn from 1..MaxBlocksPerMonth
MaxSmallBalance == 2     \* total balances 0..MaxSmallBalance, besides the documented ones

\* var vestingSchedules = [3]vestingSchedule{...}
VestingSchedulesLen == 3
\* the decoded "Vest Schedule" field is an int: the table's indices and one value
\* on either side of them
VestSchedules == -1 .. VestingSchedulesLen
GenTotals == (0..MaxSmallBalance) \cup {61, 500000, 7000000, 1234567}

\* vestingSchedules[s].vestDuration
VestDuration(s) == IF s = 0 THEN 5 ELSE 3

\* int64(vestingSchedules[s].tgePercentage * 100): the float32 products
\* 0.3*100, 0.25*100 and 0*100 truncate to 30, 25 and 0
TgePercentage(s) == IF s = 0 THEN 30 ELSE IF s = 1 THEN 25 ELSE 0

NumUnlocks(s) == VestDuration(s) * 12

TgeAmount(s, total) == (total * TgePercentage(s)) \div 100

QuaiPerUnlock(s, total) == (total - TgeAmount(s, total)) \div NumUnlocks(s)

UnlockHeight(i, bpm) == (12 + i) * bpm - 1

\* the loop stopping before numUnlocks
UnlockIndicesBelow(s) == 0 .. (NumUnlocks(s) - 1)

\* for i := uint64(0); i <= numUnlocks; i++
UnlockIndices(s) == 0 .. NumUnlocks(s)

\* account.calculateLockedBalances()
CalculateLockedBalancesOf(s, total, bpm) ==
    LET tge == TgeAmount(s, total)
        per == QuaiPerUnlock(s, total)
        keys == {UnlockHeight(i, bpm) : i \in UnlockIndices(s)}
        looped == [k \in {0} \cup keys |-> IF k \in keys THEN per ELSE tge]
        totalQuai == tge + per * NumUnlocks(s)
        roundingDiff == total - totalQuai
        final == UnlockHeight(NumUnlocks(s), bpm)
        \* a key the loop did not write reads as a nil *big.Int, which Add treats as an
        \* empty (zero) operand
        old == IF final \in DOMAIN looped THEN looped[final] ELSE 0
    IN [k \in DOMAIN looped \cup {final} |-> IF k = final THEN old + roundingDiff ELSE looped[k]]

\* the last block the ledger step is modelled for: one past the final boundary
GenLastBlock == (12 + NumUnlocks(genAccount.VestSchedule)) * genBpm + 1

GenInit ==
    /\ genBpm \in 1..MaxBlocksPerMonth
    /\ \E s \in VestSchedules, total \in GenTotals :
          genAccount = [VestSchedule |-> s, TotalBalance |-> total, BalanceSchedule |-> <<>>]
    /\ genPc = "decoded"
    /\ genBlock = 0
    /\ genBalance = 0
    /\ genCredited = {}

\* AllocateGenesisAccounts: allocs[i].calculateLockedBalances(); the index
\* expression vestingSchedules[account.VestSchedule] on the array of
\* VestingSchedulesLen entries is a run-time panic for an index outside it
CalculateLockedBalances ==
    /\ genPc = "decoded"
    /\ IF genAccount.VestSchedule \in 0 .. (VestingSchedulesLen - 1)
          THEN /\ genAccount' = [genAccount EXCEPT !.BalanceSchedule =
                     CalculateLockedBalancesOf(genAccount.VestSchedule,
                                               genAccount.TotalBalance, genBpm)]
               /\ genPc' = "allocated"
          ELSE /\ genAccount' = genAccount
               /\ genPc' = "panic"
    /\ UNCHANGED <<genBpm, genBlock, genBalance, genCredited>>
    /\ UNCHANGED <<etxVars, txVars, vhVars, batchVars, sliceVars>>

\* uintBlockNum := blockNum - 1; the key credited when uintBlockNum % BlocksPerMonth == 0,
\* -1 when the block is no monthly unlock
LockedBalanceKey(blockNum, bpm) ==
    IF (blockNum - 1) % bpm = 0 THEN blockNum - 1 ELSE -1

\* StateDB.AddLockedBalances(blockNum, genesisAccounts), once per produced block
AddLockedBalances ==
    /\ genPc = "allocated"
    /\ genBlock < GenLastBlock
    /\ LET blockNum == genBlock + 1
           key == LockedBalanceKey(blockNum, genBpm)
           sched == genAccount.BalanceSchedule
       IN /\ genBlock' = blockNum
          /\ IF key # -1 /\ key \in DOMAIN sched
                THEN /\ genBalance' = genBalance + sched[key]
                     /\ genCredited' = genCredited \cup {key}
                ELSE UNCHANGED <<genBalance, genCredited>>
    /\ UNCHANGED <<genBpm, genAccount, genPc>>
    /\ UNCHANGED <<etxVars, txVars, vhVars, batchVars, sliceVars>>

GenNext == CalculateLockedBalances \/ AddLockedBalances

\* C6: the values of the balance schedule of every produced account sum to its
\* total balance.
C6_ScheduleSumsToTotal ==
    genPc = "allocated" =>
        SumOver(genAccount.BalanceSchedule, DOMAIN genAccount.BalanceSchedule)
            = genAccount.TotalBalance

\* C7: once AddLockedBalances has been invoked for the boundary block
\* (12+i)*BlocksPerMonth, the amount scheduled at (12+i)*BlocksPerMonth-1 has
\* been credited, for every i in 0..numUnlocks.
C7_UnlocksCredited ==
    genPc = "allocated" =>
        \A i \in 0 .. NumUnlocks(genAccount.VestSchedule) :
            genBlock >= (12 + i) * genBpm =>
                ((12 + i) * genBpm - 1) \in genCredited


C21_ThirdAccountSchedule ==
    (/\ genPc = "allocated"
     /\ genAccount.VestSchedule = 2
     /\ genAccount.TotalBalance = 1234567) =>
        LET schedule == genAccount.BalanceSchedule
        IN /\ 0 \in DOMAIN schedule /\ schedule[0] = 0
           /\ \A i \in 0 .. 35 :
                 /\ ((12 + i) * genBpm - 1) \in DOMAIN schedule
                 /\ schedule[(12 + i) * genBpm - 1] = 34293
           /\ ((12 + 36) * genBpm - 1) \in DOMAIN schedule
           /\ schedule[(12 + 36) * genBpm - 1] = 34293 + 18
           /\ SumOver(schedule, DOMAIN schedule) = 1234567


\* C22: AllocateGenesisAccounts on a document containing a record whose
\* vest_schedule is outside {0,1,2} returns an error (InvalidGenesis) and
\* produces no accounts; it never crashes or returns a schedule for that record.
C22_OutOfTableRejected ==
    genAccount.VestSchedule \notin {0, 1, 2} =>
        /\ genPc \in {"decoded", "InvalidGenesis"}
        /\ genAccount.BalanceSchedule = <<>>

(***************************************************************************)
(*      TransactionsByPriceAndNonce (core/types/transaction.go)            *)
(***************************************************************************)
\* Bounds of the queue model.
MaxSenders == 2        \* sender addresses 1..MaxSenders
MaxTxPerSender == 2    \* longest per-sender list
MaxFee == 2            \* miner fees 1..MaxFee
MaxSeen == 2           \* first-seen times 1..MaxSeen

Senders == 1..MaxSenders

\* A transaction: the signer Sender() recovers, its nonce, its miner fee and
\* the time it was first seen.
TxRec(from, nonce, fee, time) == [from |-> from, nonce |-> nonce, fee |-> fee, time |-> time]

\* The nonce-sorted lists a sender key can map to: nonces 0, 1, ...; only the
\* first transaction may be signed by somebody else.
TxListsOf(a) ==
    UNION {
        {l \in [1..n -> [from : Senders, nonce : 0..(MaxTxPerSender - 1),
                         fee : 1..MaxFee, time : 1..MaxSeen]] :
            \A i \in 1..n : /\ l[i].nonce = i - 1
                            /\ (i > 1 => l[i].from = a /\ l[i].fee = 1 /\ l[i].time = 1)}
        : n \in 1..MaxTxPerSender}

TxMaps ==
    UNION { {m \in [S -> UNION {TxListsOf(a) : a \in S}] : \A a \in S : m[a] \in TxListsOf(a)}
            : S \in SUBSET Senders }

\* TxByPriceAndTime.Less on two heap elements
TxLess(x, y) ==
    IF x.minerFee = y.minerFee THEN x.tx.time < y.tx.time
    ELSE x.minerFee > y.minerFee

\* TxByPriceAndTime.Swap, indices from 0
HeapSwap(s, i, j) ==
    [k \in DOMAIN s |-> IF k = i + 1 THEN s[j + 1] ELSE IF k = j + 1 THEN s[i + 1] ELSE s[k]]

\* container/heap down(h, i0, n), indices from 0
RECURSIVE HeapDown(_, _, _)
HeapDown(s, i, n) ==
    LET j1 == 2 * i + 1
        j2 == j1 + 1
        j == IF j2 < n /\ TxLess(s[j2 + 1], s[j1 + 1]) THEN j2 ELSE j1
    IN IF j1 >= n THEN s
       ELSE IF ~TxLess(s[j + 1], s[i + 1]) THEN s
       ELSE HeapDown(HeapSwap(s, i, j), j, n)

\* container/heap Init: for i := n/2 - 1; i >= 0; i-- { down(h, i, n) }
RECURSIVE HeapInitFrom(_, _)
HeapInitFrom(s, i) == IF i < 0 THEN s ELSE HeapInitFrom(HeapDown(s, i, Len(s)), i - 1)
HeapInit(s) == HeapInitFrom(s, (Len(s) \div 2) - 1)

\* container/heap Pop: Swap(0, n-1); down(0, n-1); then TxByPriceAndTime.Pop drops
\* the last element.  On an empty heap Swap(0, -1) indexes out of range: "panic".
HeapPop(s) ==
    IF Len(s) = 0 THEN "panic"
    ELSE LET n == Len(s) - 1
         IN SubSeq(HeapDown(HeapSwap(s, 0, n), 0, n), 1, n)

\* the loop of NewTransactionsByPriceAndNonce over the input map: a sender whose
\* first transaction is not signed by it is deleted, every other list loses its
\* first transaction
TxsAfterBuild(m) ==
    [a \in {b \in DOMAIN m : m[b][1].from = b} |-> Tail(m[a])]

\* heads := make(TxByPriceAndTime, 0, len(txs)); the loop appends nothing to it
HeadsAfterBuild(m, sort) == IF sort THEN HeapInit(<<>>) ELSE <<>>

\* Peek(): nil when there is no head, else heads[0].tx
PeekOf(h) == IF Len(h) = 0 THEN Nil ELSE h[1].tx

TxInit ==
    /\ txInput \in TxMaps
    /\ txs = txInput
    /\ heads = <<>>
    /\ txPc = "input"
    /\ txPeeked = Nil
    /\ txOp = [op |-> "none", acc |-> Nil]

\* NewTransactionsByPriceAndNonce(signer, txs, sort)
NewTransactionsByPriceAndNonce(sort) ==
    /\ txPc = "input"
    /\ txs' = TxsAfterBuild(txs)
    /\ heads' = HeadsAfterBuild(txs, sort)
    /\ txPc' = "built"
    /\ txOp' = [op |-> "NewTransactionsByPriceAndNonce", acc |-> Nil]
    /\ UNCHANGED <<txInput, txPeeked>>
    /\ UNCHANGED <<etxVars, genVars, vhVars, batchVars, sliceVars>>

\* t.Peek()
Peek ==
    /\ txPc \in {"built", "used"}
    /\ txPeeked' = PeekOf(heads)
    /\ txOp' = [op |-> "Peek", acc |-> Nil]
    /\ UNCHANGED <<txInput, txs, heads, txPc>>
    /\ UNCHANGED <<etxVars, genVars, vhVars, batchVars, sliceVars>>

\* t.Shift(acc, sort)
Shift(acc, sort) ==
    /\ txPc \in {"built", "used"}
    /\ IF acc \in DOMAIN txs /\ Len(txs[acc]) > 0
          THEN /\ txPc' = "used"
               /\ UNCHANGED heads
          ELSE IF sort
          THEN IF HeapPop(heads) = "panic"
                  THEN txPc' = "panic" /\ UNCHANGED heads
                  ELSE txPc' = "used" /\ heads' = HeapPop(heads)
          ELSE /\ txPc' = "used"
               /\ heads' = IF Len(heads) > 1 THEN Tail(heads) ELSE <<>>
    /\ txOp' = [op |-> "Shift", acc |-> acc]
    /\ UNCHANGED <<txInput, txs, txPeeked>>
    /\ UNCHANGED <<etxVars, genVars, vhVars, batchVars, sliceVars>>

\* t.Pop()
Pop ==
    /\ txPc \in {"built", "used"}
    /\ IF HeapPop(heads) = "panic"
          THEN txPc' = "panic" /\ UNCHANGED heads
          ELSE txPc' = "used" /\ heads' = HeapPop(heads)
    /\ txOp' = [op |-> "Pop", acc |-> Nil]
    /\ UNCHANGED <<txInput, txs, txPeeked>>
    /\ UNCHANGED <<etxVars, genVars, vhVars, batchVars, sliceVars>>

TxNext ==
    \/ \E sort \in BOOLEAN : NewTransactionsByPriceAndNonce(sort)
    \/ Peek
    \/ \E acc \in Senders, sort \in BOOLEAN : Shift(acc, sort)
    \/ Pop

\* the senders that survive construction, and the first transaction of each
TxSurvivors == {a \in DOMAIN txInput : txInput[a][1].from = a}
TxFirsts == {txInput[a][1] : a \in TxSurvivors}

\* C10: after construction from a map with a surviving sender, Peek returns the
\* first transaction of a surviving sender that has the highest miner fee and,
\* among those, the earliest first-seen time; it returns none only when no
\* sender survives.
C10_PeekReturnsBestHead ==
    txPc = "built" =>
        /\ TxSurvivors # {} =>
              /\ Len(heads) > 0
              /\ heads[1].tx \in TxFirsts
              /\ \A t \in TxFirsts :
                    \/ t.fee < heads[1].tx.fee
                    \/ (t.fee = heads[1].tx.fee /\ t.time >= heads[1].tx.time)
        /\ Len(heads) = 0 => TxSurvivors = {}

\* the transactions of the heads
HeadTxs(h) == {h[i].tx : i \in DOMAIN h}

\* C11: Shift(acc) advances the list of acc by one: when the list holds a next
\* transaction, that transaction leaves the list and becomes a head in place
\* of the former head of acc; when the list is empty, the head of acc is
\* dropped.  (So Peek and Shift yield every transaction once, in nonce order.)
C11_ShiftAdvances ==
    [][(txOp'.op = "Shift" /\ txOp'.acc \in DOMAIN txs) =>
         LET acc == txOp'.acc
         IN /\ txPc' # "panic"
            /\ IF Len(txs[acc]) > 0
                  THEN /\ txs'[acc] = Tail(txs[acc])
                       /\ Head(txs[acc]) \in HeadTxs(heads')
               ELSE \A t \in HeadTxs(heads') : t.from # acc]_vars

\* C12: Pop discards the current best head and puts nothing in its place: on a
\* queue built from a map with a surviving sender, Pop returns, the heap is
\* one head shorter and the sender of the discarded head has no head left, so
\* no later Peek returns a transaction of that sender.
C12_PopDiscardsHead ==
    [][(txOp'.op = "Pop" /\ TxSurvivors # {}) =>
         /\ txPc' # "panic"
         /\ Len(heads) > 0
         /\ Len(heads') = Len(heads) - 1
         /\ \A t \in HeadTxs(heads') : t.from # heads[1].tx.from]_vars

(***************************************************************************)
(*        Progpow.VerifyHeader (consensus/progpow/consensus.go)            *)
(***************************************************************************)
PRIME_CTX == 0
REGION_CTX == 1
ZONE_CTX == 2
Contexts == {PRIME_CTX, REGION_CTX, ZONE_CTX}

\* Bounds of the verifier model.
HashSpace == 256      \* stands for big2e256: hashes are numbers below HashSpace
MaxDifficulty == 2    \* header difficulties 0..MaxDifficulty

\* The seal of a header: whether header.MixHash() equals the mix hash ProgPowLight
\* computes, the PoW hash as a number, and the difficulty.
PowSamples == {HashSpace \div MaxDifficulty, HashSpace \div MaxDifficulty + 1}
Seals == [mixOK : BOOLEAN, powHash : PowSamples, difficulty : 0..MaxDifficulty]

\* The rules of verifyHeader that depend on collaborators outside this file,
\* in source order, with the contexts each is checked in.
HeaderRules ==
    << [rule |-> "extra-data too long", ctx |-> Contexts],
       [rule |-> "invalid header hash", ctx |-> Contexts],
       [rule |-> "future block", ctx |-> Contexts],
       [rule |-> "older block time", ctx |-> Contexts],
       [rule |-> "invalid difficulty", ctx |-> {ZONE_CTX}],
       [rule |-> "seal", ctx |-> Contexts],
       [rule |-> "not in the same slice", ctx |-> Contexts],
       [rule |-> "invalid parent entropy", ctx |-> Contexts],
       [rule |-> "invalid parent delta entropy", ctx |-> {REGION_CTX, ZONE_CTX}],
       [rule |-> "invalid expansion", ctx |-> {PRIME_CTX}],
       [rule |-> "invalid etx eligible slices", ctx |-> {PRIME_CTX}],
       [rule |-> "invalid zone fields", ctx |-> {ZONE_CTX}],
       [rule |-> "invalid number", ctx |-> Contexts] >>

RuleNames == {HeaderRules[i].rule : i \in DOMAIN HeaderRules} \ {"seal"}

\* ComputePowHash: ErrInvalidMixHash unless the header's mix hash is the computed one
ComputePowHash(seal) == IF seal.mixOK THEN "nil" ELSE "invalid mix digest"

\* verifySeal(header)
VerifySeal(seal, powMode, fakeFail) ==
    IF powMode \in {"fake", "fullfake"}
        THEN (IF fakeFail THEN "invalid proof-of-work" ELSE "nil")
    ELSE IF seal.difficulty <= 0 THEN "non-positive difficulty"
    ELSE IF ComputePowHash(seal) # "nil" THEN ComputePowHash(seal)
    ELSE IF seal.powHash > HashSpace \div seal.difficulty THEN "invalid proof-of-work"
    ELSE "nil"

\* CalcOrder(chain, wo): verifies the seal of wo and classifies it
CalcOrderErr(seal, powMode, fakeFail) == VerifySeal(seal, powMode, fakeFail)

\* the first rule, from index i on, that rejects the header
RECURSIVE VerifyHeaderFrom(_, _)
VerifyHeaderFrom(in, i) ==
    IF i > Len(HeaderRules) THEN "nil"
    ELSE LET r == HeaderRules[i]
         IN IF in.nodeCtx \notin r.ctx THEN VerifyHeaderFrom(in, i + 1)
            ELSE IF r.rule = "seal"
                \* _, order, err := progpow.CalcOrder(chain, parent)
                THEN (IF CalcOrderErr(in.parent, in.powMode, in.fakeFail) # "nil"
                         THEN CalcOrderErr(in.parent, in.powMode, in.fakeFail)
                      ELSE IF in.parentOrder > in.nodeCtx
                         THEN "order of the block is greater than the context"
                      ELSE VerifyHeaderFrom(in, i + 1))
            ELSE IF in.violates = r.rule THEN r.rule
            ELSE VerifyHeaderFrom(in, i + 1)

\* verifyHeader(chain, header, parent, false, unixNow)
VerifyHeaderRules(in) == VerifyHeaderFrom(in, 1)

\* VerifyHeader(chain, header)
VerifyHeaderOf(in) ==
    IF in.powMode = "fullfake" THEN "nil"
    ELSE IF in.lookup = "known" THEN "nil"
    ELSE IF in.lookup = "orphan" THEN "unknown ancestor"
    ELSE VerifyHeaderRules(in)

VhInputs ==
    [ nodeCtx : Contexts,
      powMode : {"normal", "fake", "fullfake"},
      fakeFail : BOOLEAN,
      lookup : {"new", "known", "orphan"},
      header : Seals,
      parent : {s \in Seals : s.difficulty = MaxDifficulty},
      parentOrder : Contexts,
      headerOrder : Contexts,
      violates : {"none"} \cup RuleNames ]

VhInit ==
    /\ zoneChain = Nil
    /\ ptResult = Nil
    /\ vhIn \in VhInputs
    /\ vhResult = "pending"
    /\ exIn = Nil
    /\ exResult = Nil
    /\ cdIn = Nil
    /\ cdResult = Nil

VerifyHeader ==
    /\ vhResult = "pending"
    /\ vhResult' = VerifyHeaderOf(vhIn)
    /\ UNCHANGED <<vhIn, exIn, exResult, cdIn, cdResult>>
    /\ UNCHANGED <<zoneChain, ptResult>>
    /\ UNCHANGED <<etxVars, genVars, txVars, batchVars, sliceVars>>

VhNext == VerifyHeader

\* C5: with the engine in no fake mode and the header not known, VerifyHeader
\* returns an error for every header whose mix hash is not the computed one or
\* whose PoW hash exceeds 2^256 / difficulty.
C5_VerifyHeaderEnforcesPoW ==
    ( /\ vhResult # "pending"
      /\ vhIn.powMode = "normal"
      /\ vhIn.lookup # "known"
      /\ vhIn.header.difficulty > 0
      /\ \/ ~vhIn.header.mixOK
         \/ vhIn.header.powHash > HashSpace \div vhIn.header.difficulty )
    => vhResult # "nil"

\* C38: verifyHeader rejects every header H whose own order (the smallest
\* context whose difficulty target H's PoW clears) is greater than the node's
\* context, so every accepted header satisfies order(H) <= node_context.
C38_AcceptedOrderWithinContext ==
    (vhResult = "nil" /\ vhIn.powMode # "fullfake" /\ vhIn.lookup = "new")
        => vhIn.headerOrder <= vhIn.nodeCtx

\* what the order check of verifyHeader does ensure: the order CalcOrder gives
\* for the parent is not greater than the node's context
C38_ParentOrderWithinContext ==
    (vhResult = "nil" /\ vhIn.powMode # "fullfake" /\ vhIn.lookup = "new")
        => vhIn.parentOrder <= vhIn.nodeCtx


\* ---------------------------------------------------------------------------
\* verifyHeader: efficiency score, threshold count and expansion number of a
\* Prime block (consensus.go, lines 346-400)
\* ---------------------------------------------------------------------------
\* Bounds: small values in the place of params.TREE_EXPANSION_THRESHOLD,
\* TREE_EXPANSION_TRIGGER_WINDOW and TREE_EXPANSION_WAIT_COUNT
TREE_EXPANSION_THRESHOLD == 2
TREE_EXPANSION_TRIGGER_WINDOW == 2
TREE_EXPANSION_WAIT_COUNT == 1

\* Bounds.
MaxExpansion == 1     \* expansion numbers 0..MaxExpansion, and the last of a uint8

Uint8 == 256
Uint16 == 65536

\* efficiency scores around the threshold, and 0
Scores == {0} \cup ((TREE_EXPANSION_THRESHOLD - 1) .. (TREE_EXPANSION_THRESHOLD + 1))
\* threshold counts up to past the trigger window and the wait count
ThresholdCounts == 0 .. (TREE_EXPANSION_TRIGGER_WINDOW + TREE_EXPANSION_WAIT_COUNT + 1)
\* expansion numbers: ExpansionNumber() is a uint8
ExpansionNumbers == (0..MaxExpansion) \cup {Uint8 - 1}

\* verifyHeader, line 391: the parent's count has reached the window and the wait
ExpansionTriggered(parentThresholdCount) ==
    parentThresholdCount >= TREE_EXPANSION_TRIGGER_WINDOW + TREE_EXPANSION_WAIT_COUNT

\* verifyHeader, lines 366-385: expectedThresholdCount, a uint16
ExpectedThresholdCount(parentThresholdCount, expectedEfficiencyScore) ==
    IF parentThresholdCount = 0
        THEN (IF expectedEfficiencyScore > TREE_EXPANSION_THRESHOLD
                 THEN (parentThresholdCount + 1) % Uint16
              ELSE 0)
    ELSE IF \/ /\ parentThresholdCount < TREE_EXPANSION_TRIGGER_WINDOW
               /\ expectedEfficiencyScore < TREE_EXPANSION_THRESHOLD
            \/ ExpansionTriggered(parentThresholdCount)
        THEN 0
    ELSE (parentThresholdCount + 1) % Uint16

\* verifyHeader, lines 390-395: expectedExpansionNumber, a uint8
ExpectedExpansionNumber(parentThresholdCount, parentExpansionNumber) ==
    IF ExpansionTriggered(parentThresholdCount)
        THEN (parentExpansionNumber + 1) % Uint8
    ELSE parentExpansionNumber

\* verifyHeader, lines 346-400, at a Prime node: the error, or "nil".
\* in.score is chain.ComputeEfficiencyScore(parent); in.genesisExpansion is the
\* expansion number of the header of chain.GetGenesisHashes()[0].
VerifyExpansion(in) ==
    IF in.parentGenesis
        THEN IF in.header.efficiencyScore # 0 THEN "invalid efficiency score"
             ELSE IF in.header.thresholdCount # 0 THEN "invalid threshold count"
             ELSE IF in.header.expansionNumber # in.genesisExpansion
                 THEN "invalid expansion number"
             ELSE "nil"
    ELSE IF in.header.efficiencyScore # in.score THEN "invalid efficiency score"
    ELSE IF in.header.thresholdCount # ExpectedThresholdCount(in.parent.thresholdCount, in.score)
        THEN "invalid threshold count"
    ELSE IF in.header.expansionNumber #
              ExpectedExpansionNumber(in.parent.thresholdCount, in.parent.expansionNumber)
        THEN "invalid expansion number"
    ELSE "nil"

ExInputs ==
    [ parentGenesis : BOOLEAN,
      genesisExpansion : 0..MaxExpansion,
      score : Scores,
      parent : [thresholdCount : ThresholdCounts, expansionNumber : ExpansionNumbers],
      header : [efficiencyScore : Scores, thresholdCount : ThresholdCounts \cup {0},
                expansionNumber : ExpansionNumbers \cup {1 + MaxExpansion}] ]

ExInit ==
    /\ zoneChain = Nil
    /\ ptResult = Nil
    /\ exIn \in ExInputs
    /\ exResult = "pending"
    /\ vhIn = Nil
    /\ vhResult = Nil
    /\ cdIn = Nil
    /\ cdResult = Nil

\* verifyHeader on a Prime block, the part of lines 346-400
VerifyHeaderExpansion ==
    /\ exResult = "pending"
    /\ exResult' = VerifyExpansion(exIn)
    /\ UNCHANGED <<vhIn, vhResult, exIn, cdIn, cdResult>>
    /\ UNCHANGED <<zoneChain, ptResult>>
    /\ UNCHANGED <<etxVars, genVars, txVars, batchVars, sliceVars>>

ExNext == VerifyHeaderExpansion

\* C18: on an accepted Prime header with a parent that is not genesis, the
\* expansion number is the parent's + 1 exactly when the parent's threshold
\* count has reached TriggerWindow + WaitCount, and then the header's threshold
\* count is 0; in every other case the expansion number is the parent's.
C18_ExpansionStateMachine ==
    (exResult = "nil" /\ ~exIn.parentGenesis) =>
        LET reached == exIn.parent.thresholdCount >=
                          TREE_EXPANSION_TRIGGER_WINDOW + TREE_EXPANSION_WAIT_COUNT
        IN /\ (exIn.header.expansionNumber = exIn.parent.expansionNumber + 1) <=> reached
           /\ reached => exIn.header.thresholdCount = 0
           /\ ~reached => exIn.header.expansionNumber = exIn.parent.expansionNumber

\* C37: along any chain of Prime headers accepted by verifyHeader, a header's
\* threshold_count is parent.threshold_count + 1 only if its efficiency score
\* is greater than TreeExpansionThreshold; whenever the score is not greater
\* than the threshold the count does not increase.
C37_CountGrowsOnlyAboveThreshold ==
    (exResult = "nil" /\ ~exIn.parentGenesis) =>
        /\ exIn.header.thresholdCount = exIn.parent.thresholdCount + 1
              => exIn.header.efficiencyScore > TREE_EXPANSION_THRESHOLD
        /\ exIn.header.efficiencyScore <= TREE_EXPANSION_THRESHOLD
              => exIn.header.thresholdCount <= exIn.parent.thresholdCount

\* the count of an accepted header at the start of the count: it goes from 0
\* to 1 exactly when the score is greater than the threshold
C37_CountStartsAboveThreshold ==
    (exResult = "nil" /\ ~exIn.parentGenesis /\ exIn.parent.thresholdCount = 0) =>
        exIn.header.thresholdCount =
            IF exIn.header.efficiencyScore > TREE_EXPANSION_THRESHOLD THEN 1 ELSE 0


\* ---------------------------------------------------------------------------
\* CalcDifficulty (consensus.go, lines 498-558)
\* ---------------------------------------------------------------------------
\* Bounds: small values in the place of progpow.config.DurationLimit,
\* params.DifficultyAdjustmentFactor, params.DifficultyAdjustmentPeriod and
\* progpow.config.MinDifficulty
DurationLimit == 3
DifficultyAdjustmentFactor == 2
DifficultyAdjustmentPeriod == 2
MinDifficulty == 3

\* Bounds.
MaxParentDifficulty == 9   \* parent difficulties 1..MaxParentDifficulty
MaxDelta == 6              \* parent.Time() - parentOfParent.Time() in 0..MaxDelta

\* big.Int.BitLen of a positive number
RECURSIVE BitLen(_)
BitLen(n) == IF n = 0 THEN 0 ELSE 1 + BitLen(n \div 2)

\* mathutil.BinaryLog(n, 64): the characteristic
BinaryLog(n) == BitLen(n) - 1

\* CalcDifficulty without the clamp to the minimum
ClampNever(x) == x

\* CalcDifficulty, lines 553-556: the minimum the difficulty can ever be
ClampToMin(x) == IF x < MinDifficulty THEN MinDifficulty ELSE x

\* CalcDifficulty, lines 537-557: big.Int.Div is the Euclidean division, which
\* for a positive divisor rounds down, as \div does
AdjustedDifficulty(difficulty, delta) ==
    LET x1 == DurationLimit - delta
        x2 == x1 * difficulty
        x3 == x2 * BinaryLog(difficulty)
        x4 == x3 \div DurationLimit
        x5 == x4 \div DifficultyAdjustmentFactor
        x6 == x5 \div DifficultyAdjustmentPeriod
    IN ClampToMin(x6 + difficulty)

\* CalcDifficulty(chain, parent, expansionNum): nil, the difficulty of the
\* block after genesis (lines 512-529), or the adjusted difficulty
CalcDifficultyOf(in) ==
    IF in.nodeCtx # ZONE_CTX THEN [kind |-> "nil", value |-> 0]
    ELSE IF in.parentGenesis THEN [kind |-> "genesis", value |-> 0]
    ELSE IF in.grandparent \in {"nil", "genesis"}
        THEN [kind |-> "difficulty", value |-> in.difficulty]
    ELSE [kind |-> "difficulty", value |-> AdjustedDifficulty(in.difficulty, in.delta)]

CdInputs ==
    [ nodeCtx : Contexts,
      parentGenesis : BOOLEAN,
      grandparent : {"nil", "genesis", "block"},
      difficulty : 1..MaxParentDifficulty,
      delta : 0..MaxDelta ]

CdInit ==
    /\ zoneChain = Nil
    /\ ptResult = Nil
    /\ cdIn \in CdInputs
    /\ cdResult = [kind |-> "pending", value |-> 0]
    /\ vhIn = Nil
    /\ vhResult = Nil
    /\ exIn = Nil
    /\ exResult = Nil

CalcDifficulty ==
    /\ cdResult.kind = "pending"
    /\ cdResult' = CalcDifficultyOf(cdIn)
    /\ UNCHANGED <<vhIn, vhResult, exIn, exResult, cdIn>>
    /\ UNCHANGED <<zoneChain, ptResult>>
    /\ UNCHANGED <<etxVars, genVars, txVars, batchVars, sliceVars>>

CdNext == CalcDifficulty

\* floor(log2(n)) for n >= 1
FloorLog2(n) == CHOOSE k \in 0..n : 2^k <= n /\ n < 2^(k + 1)

\* max(MinDifficulty, parent.difficulty + x) with x as the specification gives it
SpecifiedDifficulty(difficulty, delta) ==
    Max(MinDifficulty,
        difficulty + ((DurationLimit - delta) * difficulty * FloorLog2(difficulty))
                        \div (DurationLimit * DifficultyAdjustmentFactor
                                * DifficultyAdjustmentPeriod))

\* C19 as stated: for a parent that is not genesis, CalcDifficulty returns
\* max(MinDifficulty, parent.difficulty + x) with x = (DurationLimit - (parent.time
\* - grandparent.time)) * parent.difficulty * floor(log2(parent.difficulty)) /
\* (DurationLimit * DifficultyAdjustmentFactor * DifficultyAdjustmentPeriod), and
\* so never a difficulty below MinDifficulty.
C19_CalcDifficulty ==
    (cdResult.kind # "pending" /\ ~cdIn.parentGenesis) =>
        /\ cdResult.kind = "difficulty"
        /\ cdResult.value = SpecifiedDifficulty(cdIn.difficulty, cdIn.delta)
        /\ cdResult.value >= MinDifficulty

\* C19, amended: the above at a Zone node for a parent whose own parent is a
\* known block other than genesis.
C19_CalcDifficultyPastGenesis ==
    ( /\ cdResult.kind # "pending"
      /\ cdIn.nodeCtx = ZONE_CTX
      /\ ~cdIn.parentGenesis
      /\ cdIn.grandparent = "block" ) =>
        /\ cdResult.kind = "difficulty"
        /\ cdResult.value = SpecifiedDifficulty(cdIn.difficulty, cdIn.delta)
        /\ cdResult.value >= MinDifficulty

\* the adjustment went below the minimum and was clamped
C19_Witness ==
    /\ cdResult.kind = "difficulty"
    /\ cdIn.grandparent = "block"
    /\ cdIn.delta > DurationLimit
    /\ cdResult.value = MinDifficulty
    /\ cdResult.value < cdIn.difficulty

(***************************************************************************)
(*                     Slice (core/chain_makers.go)                        *)
(***************************************************************************)
terminiIndex == 3
maxTimeFutureHeaders == 30
GenesisHash == 1

\* Bounds of the Slice model.
MaxHeaders == 3    \* proposed headers GenesisHash+1 .. GenesisHash+MaxHeaders
MaxProcs == 1      \* concurrent Append calls
MaxDomTd == 4      \* a dominant chain passes a td in MaxDomTd-1 .. MaxDomTd
MaxNow == 1        \* addfutureHeader is called at the seconds 0 .. MaxNow

Headers == (GenesisHash + 1) .. (GenesisHash + MaxHeaders)
Hashes == {GenesisHash} \cup Headers
Procs == 1..MaxProcs
DomTds == (MaxDomTd - 1) .. MaxDomTd
DomTermini == {GenesisHash, GenesisHash + 2}

\* The proposed headers.  A header is immutable and identified by its hash, so
\* its fields are functions of the hash: two children of genesis, then a
\* child of each header in turn.
HeaderParent(h) == IF h <= GenesisHash + 2 THEN GenesisHash ELSE h - 2
RECURSIVE HeaderNumber(_)
HeaderNumber(h) == IF h = GenesisHash THEN 0 ELSE HeaderNumber(HeaderParent(h)) + 1
HeaderDifficulty(h) == IF h % 4 \in {2, 3} THEN 2 ELSE 1
\* the order of the header: two hashes in three clear the Prime target
HeaderOrder(h) == IF h % 3 = 2 THEN ZONE_CTX ELSE PRIME_CTX
\* header.ParentHash(common.PRIME_CTX) as a subordinate node sees it
HeaderPrimeParent(h) == IF h <= GenesisHash + 2 THEN GenesisHash ELSE GenesisHash + 2
\* header.Location().SubIndex()
HeaderSubIndex(h) == h % 3

MapPut(f, k, v) == [x \in DOMAIN f \cup {k} |-> IF x = k THEN v ELSE f[x]]

\* sl.engine.HasCoincidentDifficulty(header): the header also is a block of the
\* dominant chain
IsCoincident(h) == nodeCtx # PRIME_CTX /\ HeaderOrder(h) < nodeCtx

\* sl.hc.GetTerminiByHash(hash): empty when nothing is stored
GetTerminiByHash(hash) == IF hash \in DOMAIN dbTermini THEN dbTermini[hash] ELSE <<>>

\* A pending header carries, per context, a number and a parent hash.
EmptyHeader == [number |-> <<0, 0, 0>>, parent |-> <<Nil, Nil, Nil>>]

\* sl.miner.worker.GeneratePendingHeader(block): the local pending header on block
GeneratePendingHeader(h) ==
    [number |-> [c \in 1..3 |-> IF c = nodeCtx + 1 THEN HeaderNumber(h) + 1 ELSE 0],
     parent |-> [c \in 1..3 |-> IF c = nodeCtx + 1 THEN h ELSE Nil]]

\* the pending header a dominant node built on block h: its own contexts filled in
DomPendingHeader(h) ==
    [number |-> [c \in 1..3 |-> IF c - 1 < nodeCtx THEN HeaderNumber(h) + 1 ELSE 0],
     parent |-> [c \in 1..3 |-> IF c - 1 < nodeCtx THEN h ELSE Nil]]

\* combinePendingHeader(header, slPendingHeader, index)
CombinePendingHeader(header, slPendingHeader, index) ==
    [number |-> [slPendingHeader.number EXCEPT ![index + 1] = header.number[index + 1]],
     parent |-> [slPendingHeader.parent EXCEPT ![index + 1] = header.parent[index + 1]]]

\* computePendingHeader handing on the dominant pending header as it came
ComputePendingHeaderDomOnly(localPh, domPendingHeader, domOrigin) ==
    [header |-> domPendingHeader, termini |-> localPh.termini]

\* computePendingHeader(localPendingHeaderWithTermini, domPendingHeader, domOrigin)
ComputePendingHeader(localPh, domPendingHeader, domOrigin) ==
    LET hash == localPh.termini[terminiIndex + 1]
    IN IF hash \in DOMAIN phCache
          THEN [header |-> CombinePendingHeader(localPh.header, phCache[hash].header, nodeCtx),
                termini |-> localPh.termini]
       ELSE IF domOrigin
          THEN [header |-> CombinePendingHeader(localPh.header, domPendingHeader, nodeCtx),
                termini |-> localPh.termini]
       ELSE localPh

\* pcrc with every header inheriting the terminus of its parent
NewTerminusInherited(h, termini) == termini[terminiIndex + 1]

\* pcrc, "Set the terminus": the header itself on a Prime node or when it is
\* coincident, else the terminus of the parent
NewTerminus(h, termini) ==
    IF nodeCtx = PRIME_CTX \/ IsCoincident(h) THEN h ELSE termini[terminiIndex + 1]

\* pcrc(batch, header, domTerminus), with the cyclic reference check left out
PcrcUnchecked(h, domTerminus) ==
    LET termini == GetTerminiByHash(HeaderParent(h))
        sub == HeaderSubIndex(h)
        withSub == IF nodeCtx # ZONE_CTX THEN [termini EXCEPT ![sub + 1] = h] ELSE termini
        newTermini == [withSub EXCEPT ![terminiIndex + 1] = NewTerminus(h, termini)]
    IN IF Len(termini) # 4
          THEN [err |-> "length of termini not equal to 4", domTerminus |-> Nil,
                newTermini |-> <<>>]
       ELSE [err |-> "nil",
             domTerminus |-> IF nodeCtx = ZONE_CTX THEN Nil ELSE termini[sub + 1],
             newTermini |-> newTermini]

\* pcrc(batch, header, domTerminus): the error, the terminus handed to the
\* subordinate and the new termini, which are written to the batch
Pcrc(h, domTerminus) ==
    LET termini == GetTerminiByHash(HeaderParent(h))
        \* Genesis escape for the domTerminus
        dom == IF HeaderPrimeParent(h) = GenesisHash THEN GenesisHash ELSE domTerminus
    IN IF Len(termini) = 4 /\ IsCoincident(h) /\ termini[terminiIndex + 1] # dom
          THEN [err |-> "termini do not match, block rejected due to cyclic reference",
                domTerminus |-> Nil, newTermini |-> <<>>]
       ELSE PcrcUnchecked(h, domTerminus)

\* sl.hc.HasHeader answering that no header is known
HasHeaderNever(h) == FALSE

\* sl.hc.HasHeader(header.Hash(), header.NumberU64()), Append line 631
HasHeader(h) == h \in dbHeaders

\* calcTd(header)
CalcTd(h) ==
    IF IsCoincident(h)
        THEN [err |-> "td on a dom block cannot be calculated by a sub", td |-> 0]
    ELSE IF HeaderParent(h) \notin DOMAIN dbTd
        THEN [err |-> "future block", td |-> 0]
    ELSE [err |-> "nil", td |-> dbTd[HeaderParent(h)] + HeaderDifficulty(h)]

\* mutant: an equal td reorgs as well
HlcrOrEqual(externTd) == dbTd[currentHead] <= externTd

\* hlcr(externTd): currentTd.Cmp(externTd) < 0
Hlcr(externTd) == dbTd[currentHead] < externTd

\* updateCurrentPendingHeader(externPendingHeader): the pending header head hash after it
UpdateCurrentPendingHeader(ph, cache, headHash) ==
    LET externParent == ph.header.parent[nodeCtx + 1]
        currentParent == cache[headHash].header.parent[nodeCtx + 1]
    IN IF /\ headHash \in DOMAIN cache
          /\ externParent \in DOMAIN dbTd
          /\ currentParent \in DOMAIN dbTd
          /\ dbTd[currentParent] < dbTd[externParent]
          THEN ph.termini[terminiIndex + 1]
       ELSE headHash

\* pickPhCacheHead(reorg, externPendingHeaderWithTermini), on the cache as
\* writeToPhCache left it: whether the miner is updated, and the head hash
PickPhCacheHead(reorg, ph, cache, headHash) ==
    LET key == ph.termini[terminiIndex + 1]
    IN IF reorg THEN [updateMiner |-> TRUE, head |-> key]
       ELSE IF /\ key \in DOMAIN cache
               /\ ph.header.number[nodeCtx + 1] > cache[key].header.number[nodeCtx + 1]
          THEN [updateMiner |-> TRUE, head |-> UpdateCurrentPendingHeader(ph, cache, headHash)]
       ELSE [updateMiner |-> FALSE, head |-> headHash]

NoCall ==
    [header |-> Nil, domOrigin |-> FALSE, domTerminus |-> Nil, subTerminus |-> Nil,
     td |-> 0, reorg |-> FALSE, newTermini |-> <<>>, ph |-> [header |-> EmptyHeader, termini |-> <<>>],
     committed |-> FALSE, dirty |-> FALSE,
     cacheDirty |-> FALSE,
     \* whether procfutureHeaders made the call
     sweeper |-> FALSE]

\* no Append returned in the latest step
NoResult ==
    [proc |-> Nil, header |-> Nil, domOrigin |-> FALSE, domTerminus |-> Nil,
     committed |-> FALSE, dirty |-> FALSE, cacheDirty |-> FALSE, err |-> "nil",
     result |-> "none"]

\* no SubRelayPendingHeader ran in the latest step
NoRelay == [pc |-> "idle", here |-> FALSE, terminus |-> Nil]
NoReader == [pc |-> "idle", hash |-> Nil, result |-> "none"]
NoEvent == [kind |-> "none", block |-> Nil]
\* procfutureHeaders is not running
NoSweep == [pc |-> "idle", todo |-> <<>>, err |-> "nil"]
\* no addfutureHeader returned in the latest step
NoAdd == [header |-> Nil, now |-> 0, err |-> "none"]
\* the miner's feed holds the key of the cache entry whose header was sent last
NoFeed == [kind |-> "none", hash |-> Nil]


\* the slice after NewSlice, with the Append calls of procs idle
SliceInitOf(procs) ==
    /\ nodeCtx \in Contexts
    /\ dbHeaders = {GenesisHash}
    /\ dbTermini = MapPut(<<>>, GenesisHash,
                          <<GenesisHash, GenesisHash, GenesisHash, GenesisHash>>)
    /\ dbTd = MapPut(<<>>, GenesisHash, HeaderDifficulty(GenesisHash))
    /\ currentHead = GenesisHash
    /\ phCache = <<>>
    /\ pendingHeaderHeadHash = GenesisHash
    /\ futureHeaders = {}
    /\ phCachemu = Nil
    /\ pc = [p \in procs |-> "idle"]
    /\ call = [p \in procs |-> NoCall]
    /\ appendResult = NoResult
    /\ lastEvent = NoEvent
    /\ minerFeed = NoFeed
    /\ relay = NoRelay
    /\ reader = NoReader
    /\ sweep = NoSweep
    /\ addResult = NoAdd

SliceInit == SliceInitOf(Procs)

SliceOnly == UNCHANGED <<etxVars, genVars, txVars, vhVars, batchVars, hierVars, pendVars>>

\* the local state a failed Append must leave as it was
LocalState == <<dbHeaders, dbTermini, dbTd, currentHead, phCache, pendingHeaderHeadHash>>
CacheState == <<phCache, pendingHeaderHeadHash>>

\* the call of p returns (result, err); the deferred Unlock releases the lock
\* if p holds it
Returns(p, c, err, result) ==
    /\ pc' = [pc EXCEPT ![p] = "idle"]
    /\ call' = [call EXCEPT ![p] = NoCall]
    /\ appendResult' = [proc |-> p, header |-> c.header, domOrigin |-> c.domOrigin,
                        domTerminus |-> c.domTerminus, committed |-> c.committed,
                        dirty |-> c.dirty, cacheDirty |-> c.cacheDirty, err |-> err,
                        result |-> result]
    /\ phCachemu' = IF phCachemu = p THEN Nil ELSE phCachemu
    \* procfutureHeaders, line 1242: the error goes to the sweep that called
    /\ sweep' = IF c.sweeper THEN [sweep EXCEPT !.pc = "result", !.err = err] ELSE sweep

\* Append, lines 625-653: the known-header check, ConstructLocalBlock and PCRC
SliceAppend(p, h, domOrigin, domTerminus, td, reorg) ==
    /\ pc[p] = "idle"
    \* procfutureHeaders, line 1242: the call a sweep is about to make
    /\ sweep.pc = "call" => h = Head(sweep.todo) /\ ~domOrigin
    \* only a dominant node calls with domOrigin, for a block of its own chain,
    \* and passes its terminus, its td and its reorg decision; the other callers
    \* pass the nil hash, a td of 0 and reorg false (line 1242)
    /\ IF domOrigin
          THEN /\ nodeCtx # PRIME_CTX
               /\ HeaderOrder(h) < nodeCtx
               /\ domTerminus \in DomTermini
               /\ td \in DomTds
       ELSE domTerminus = Nil /\ td = 0 /\ ~reorg
    /\ LET c == [NoCall EXCEPT !.header = h, !.domOrigin = domOrigin,
                               !.domTerminus = domTerminus, !.td = td, !.reorg = reorg,
                               !.sweeper = (sweep.pc = "call")]
           r == Pcrc(h, domTerminus)
       IN IF HasHeader(h)
             THEN /\ futureHeaders' = futureHeaders \ {h}
                  /\ Returns(p, c, "nil", "nil")
          ELSE /\ UNCHANGED futureHeaders
               /\ \E body \in BOOLEAN :
                    IF ~body
                       THEN Returns(p, c, "could not find the tx and uncle data", "nil")
                    ELSE IF r.err # "nil" THEN Returns(p, c, r.err, "nil")
                    ELSE /\ pc' = [pc EXCEPT ![p] = "block"]
                         /\ appendResult' = NoResult
                         /\ sweep' = IF c.sweeper THEN [sweep EXCEPT !.pc = "wait"]
                                      ELSE sweep
                         /\ call' = [call EXCEPT ![p] =
                                [c EXCEPT !.subTerminus = r.domTerminus,
                                          !.newTermini = r.newTermini]]
                         /\ UNCHANGED phCachemu
    /\ UNCHANGED <<nodeCtx, dbHeaders, dbTermini, dbTd, currentHead, phCache,
                   pendingHeaderHeadHash, reader>>
    /\ lastEvent' = NoEvent
    /\ minerFeed' = NoFeed
    /\ addResult' = NoAdd
    /\ relay' = NoRelay
    /\ SliceOnly

\* Append, lines 655-678: CollectNewlyConfirmedEtxs, hc.Append into the batch,
\* calcTd and HLCR
AppendBlock(p) ==
    /\ pc[p] = "block"
    /\ LET c == call[p]
           t == CalcTd(c.header)
       IN \E etxsOk, hcOk \in BOOLEAN :
            IF ~IsCoincident(c.header) /\ ~etxsOk
               THEN Returns(p, c, "unable to find pending etxs for hash in manifest", "nil")
            ELSE IF ~hcOk THEN Returns(p, c, "header chain append failed", "nil")
            ELSE IF c.domOrigin
               THEN /\ pc' = [pc EXCEPT ![p] = "lock"]
                    /\ appendResult' = NoResult
                    /\ UNCHANGED sweep
                    /\ UNCHANGED <<call, phCachemu>>
            ELSE IF t.err # "nil" THEN Returns(p, c, t.err, "nil")
            ELSE /\ pc' = [pc EXCEPT ![p] = "lock"]
                 /\ appendResult' = NoResult
                 /\ UNCHANGED sweep
                 /\ call' = [call EXCEPT ![p] = [c EXCEPT !.td = t.td, !.reorg = Hlcr(t.td)]]
                 /\ UNCHANGED phCachemu
    /\ UNCHANGED <<nodeCtx, dbHeaders, dbTermini, dbTd, currentHead, phCache,
                   pendingHeaderHeadHash, futureHeaders, reader>>
    /\ lastEvent' = NoEvent
    /\ minerFeed' = NoFeed
    /\ addResult' = NoAdd
    /\ relay' = NoRelay
    /\ SliceOnly

\* Append, lines 680-691: sl.phCachemu.Lock(), GeneratePendingHeader and
\* computePendingHeader
AppendLock(p) ==
    /\ pc[p] = "lock"
    /\ phCachemu = Nil
    /\ LET c == call[p]
           localPh == [header |-> GeneratePendingHeader(c.header), termini |-> c.newTermini]
           domPh == IF c.domOrigin THEN DomPendingHeader(c.header) ELSE EmptyHeader
       IN \E genOk \in BOOLEAN :
            IF ~genOk
               THEN Returns(p, c, "generate pending header failed", "nil")
            ELSE /\ phCachemu' = p
                 /\ appendResult' = NoResult
                 /\ UNCHANGED sweep
                 /\ pc' = [pc EXCEPT ![p] = "sub"]
                 /\ call' = [call EXCEPT ![p] =
                        [c EXCEPT !.ph = ComputePendingHeader(localPh, domPh, c.domOrigin)]]
    /\ UNCHANGED <<nodeCtx, dbHeaders, dbTermini, dbTd, currentHead, phCache,
                   pendingHeaderHeadHash, futureHeaders, reader>>
    /\ lastEvent' = NoEvent
    /\ minerFeed' = NoFeed
    /\ addResult' = NoAdd
    /\ relay' = NoRelay
    /\ SliceOnly

\* the answers of a subordinate's Append
SubAnswers == {"nil", "sub not synced to dom", "sub append failed"}

\* Append, lines 693-719: the subordinate's Append, the ETX rollup and WriteTd
\* into the batch
AppendSub(p) ==
    /\ pc[p] = "sub"
    /\ LET c == call[p]
       IN \E sub \in SubAnswers, rollupOk \in BOOLEAN :
            IF nodeCtx # ZONE_CTX /\ sub # "nil" THEN Returns(p, c, sub, "nil")
            ELSE IF IsCoincident(c.header) /\ ~rollupOk
               THEN Returns(p, c, "unable to get ETX rollup", "nil")
            ELSE /\ pc' = [pc EXCEPT ![p] = "write"]
                 /\ appendResult' = NoResult
                 /\ UNCHANGED sweep
                 /\ UNCHANGED <<call, phCachemu>>
    /\ UNCHANGED <<nodeCtx, dbHeaders, dbTermini, dbTd, currentHead, phCache,
                   pendingHeaderHeadHash, futureHeaders, reader>>
    /\ lastEvent' = NoEvent
    /\ minerFeed' = NoFeed
    /\ addResult' = NoAdd
    /\ relay' = NoRelay
    /\ SliceOnly

\* Append, lines 721-724: batch.Write() puts the header, its termini and its td
\* into storage, or fails and puts nothing
AppendWrite(p) ==
    /\ pc[p] = "write"
    /\ LET c == call[p]
       IN \E ok \in BOOLEAN :
            IF ~ok
               THEN /\ Returns(p, c, "batch write failed", "nil")
                    /\ UNCHANGED <<dbHeaders, dbTermini, dbTd, currentHead, phCache,
                                   pendingHeaderHeadHash>>
            ELSE /\ dbHeaders' = dbHeaders \cup {c.header}
                 /\ dbTermini' = MapPut(dbTermini, c.header, c.newTermini)
                 /\ dbTd' = MapPut(dbTd, c.header, c.td)
                 /\ UNCHANGED <<currentHead, phCache, pendingHeaderHeadHash>>
                 /\ appendResult' = NoResult
                 /\ UNCHANGED sweep
                 /\ pc' = [pc EXCEPT ![p] = "head"]
                 /\ call' = [call EXCEPT ![p] =
                        [c EXCEPT !.committed = TRUE,
                                  !.dirty = c.dirty \/ LocalState' # LocalState]]
                 /\ UNCHANGED phCachemu
    /\ UNCHANGED <<nodeCtx, futureHeaders, reader>>
    /\ lastEvent' = NoEvent
    /\ minerFeed' = NoFeed
    /\ addResult' = NoAdd
    /\ relay' = NoRelay
    /\ SliceOnly

\* setHeaderChainHead(batch, block, reorg), Append lines 726-730
SetHeaderChainHead(p) ==
    /\ pc[p] = "head"
    /\ UNCHANGED <<nodeCtx, dbHeaders, dbTermini, dbTd, phCache, pendingHeaderHeadHash,
                   futureHeaders, reader>>
    /\ minerFeed' = NoFeed
    /\ LET c == call[p]
       IN IF c.reorg
             THEN \E ok \in BOOLEAN :
                    IF ~ok
                       THEN /\ Returns(p, c, "set current header failed", "nil")
                            /\ UNCHANGED <<currentHead>>
                            /\ lastEvent' = NoEvent
                    ELSE /\ currentHead' = c.header
                         /\ lastEvent' = [kind |-> "ChainHeadEvent", block |-> c.header]
                         /\ appendResult' = NoResult
                         /\ UNCHANGED sweep
                         /\ pc' = [pc EXCEPT ![p] = "cache"]
                         /\ call' = [call EXCEPT ![p] =
                                [c EXCEPT !.dirty = c.dirty \/ LocalState' # LocalState]]
                         /\ UNCHANGED phCachemu
          ELSE /\ lastEvent' = [kind |-> "ChainSideEvent", block |-> c.header]
               /\ appendResult' = NoResult
               /\ UNCHANGED sweep
               /\ pc' = [pc EXCEPT ![p] = "cache"]
               /\ UNCHANGED <<currentHead, call, phCachemu>>
    /\ addResult' = NoAdd
    /\ relay' = NoRelay
    /\ SliceOnly

\* Append, lines 732-749: writeToPhCache, pickPhCacheHead, relayPh, the eviction
\* from the future headers and the return
AppendCache(p) ==
    /\ pc[p] = "cache"
    /\ UNCHANGED <<nodeCtx, dbHeaders, dbTermini, dbTd, currentHead, reader>>
    /\ lastEvent' = NoEvent
    /\ LET c == call[p]
           cache == MapPut(phCache, c.ph.termini[terminiIndex + 1], c.ph)
           pick == PickPhCacheHead(c.reorg, c.ph, cache, pendingHeaderHeadHash)
       IN /\ phCache' = cache
          /\ pendingHeaderHeadHash' = pick.head
          /\ minerFeed' = IF nodeCtx = ZONE_CTX /\ pick.updateMiner
                             THEN (IF pick.head \in DOMAIN cache
                                      THEN [kind |-> "header", hash |-> pick.head]
                                   ELSE [kind |-> "panic", hash |-> pick.head])
                          ELSE NoFeed
          /\ futureHeaders' = futureHeaders \ {c.header}
          /\ Returns(p, [c EXCEPT !.dirty = c.dirty \/ LocalState' # LocalState,
                                  !.cacheDirty = CacheState' # CacheState],
                     "nil", "pendingEtxs")
    /\ addResult' = NoAdd
    /\ relay' = NoRelay
    /\ SliceOnly

\* a Zone merging the Prime context only
RelayIndicesPrimeOnly == <<PRIME_CTX>>

\* the contexts updatePhCacheFromDom merges from the dominant pending header
RelayIndices == IF nodeCtx = REGION_CTX THEN <<PRIME_CTX>> ELSE <<PRIME_CTX, REGION_CTX>>

RECURSIVE CombineAll(_, _, _)
CombineAll(domHeader, localHeader, indices) ==
    IF indices = <<>> THEN localHeader
    ELSE CombineAll(domHeader,
                    CombinePendingHeader(domHeader, localHeader, Head(indices)),
                    Tail(indices))

\* updatePhCacheFromDom(pendingHeader, terminiIndex, indices, reorg): the cache
\* and the head hash after it
UpdatePhCacheFromDom(hash, domHeader, reorg) ==
    IF hash \in DOMAIN phCache
       THEN [cache |-> MapPut(phCache, hash,
                              [header |-> CombineAll(domHeader, phCache[hash].header,
                                                     RelayIndices),
                               termini |-> phCache[hash].termini]),
             head |-> IF reorg THEN hash ELSE pendingHeaderHeadHash,
             found |-> TRUE]
    ELSE [cache |-> phCache, head |-> pendingHeaderHeadHash, found |-> FALSE]

\* SubRelayPendingHeader(pendingHeader, reorg, location), lines 971-1011: under
\* sl.phCachemu from the first statement to the return, so one step to every
\* goroutine that takes the lock
SubRelayPendingHeader(reorg, here) ==
    /\ nodeCtx # PRIME_CTX
    /\ phCachemu = Nil
    \* the terminus of pendingHeader that updatePhCacheFromDom looks up: a key of
    \* the cache, or one that is not; pendingHeader.Header is the pending header
    \* the dominant node built on that terminus
    /\ \E terminus \in DOMAIN phCache \cup {Nil} :
         LET u == IF here THEN [cache |-> phCache, head |-> pendingHeaderHeadHash,
                                found |-> FALSE]
                  ELSE UpdatePhCacheFromDom(terminus, DomPendingHeader(terminus), reorg)
         IN /\ phCache' = u.cache
            /\ pendingHeaderHeadHash' = u.head
            /\ relay' = [pc |-> "done", here |-> here,
                         terminus |-> IF here THEN Nil ELSE terminus]
            /\ minerFeed' = IF nodeCtx = ZONE_CTX /\ u.found /\ u.head \in DOMAIN u.cache
                                THEN [kind |-> "header", hash |-> u.head]
                             ELSE NoFeed
    /\ appendResult' = NoResult
    /\ UNCHANGED sweep
    /\ UNCHANGED <<nodeCtx, dbHeaders, dbTermini, dbTd, currentHead, futureHeaders,
                   phCachemu, pc, call, reader>>
    /\ lastEvent' = NoEvent
    /\ addResult' = NoAdd
    /\ SliceOnly

\* GetPendingHeader, line 941: the load of sl.pendingHeaderHeadHash.  No lock is taken.
GetPendingHeader ==
    /\ reader.pc = "idle"
    /\ reader' = [pc |-> "lookup", hash |-> pendingHeaderHeadHash, result |-> NoReader.result]
    /\ appendResult' = NoResult
    /\ UNCHANGED sweep
    /\ UNCHANGED <<nodeCtx, dbHeaders, dbTermini, dbTd, currentHead, phCache,
                   pendingHeaderHeadHash, futureHeaders, phCachemu, pc, call>>
    /\ lastEvent' = NoEvent
    /\ minerFeed' = NoFeed
    /\ addResult' = NoAdd
    /\ relay' = NoRelay
    /\ SliceOnly

\* what an unsynchronised lookup in a Go map can give while another goroutine
\* is inside its write section: the entry, or the runtime's fatal error
RacyLookups(value) ==
    IF phCachemu = Nil THEN {value}
    ELSE {value, "fatal error: concurrent map read and map write"}

\* GetPendingHeader, line 941: the lookup sl.phCache[hash].Header
GetPendingHeaderLookup ==
    /\ reader.pc = "lookup"
    /\ \E v \in RacyLookups(IF reader.hash \in DOMAIN phCache
                               THEN "header" ELSE "nil") :
         reader' = [pc |-> "idle", hash |-> Nil, result |-> v]
    /\ appendResult' = NoResult
    /\ UNCHANGED sweep
    /\ UNCHANGED <<nodeCtx, dbHeaders, dbTermini, dbTd, currentHead, phCache,
                   pendingHeaderHeadHash, futureHeaders, phCachemu, pc, call>>
    /\ lastEvent' = NoEvent
    /\ minerFeed' = NoFeed
    /\ addResult' = NoAdd
    /\ relay' = NoRelay
    /\ SliceOnly

\* header.Time(), in seconds: the proposed headers lie 29, 30, 31, ... seconds
\* after the start of the clock
HeaderTime(h) == maxTimeFutureHeaders + h - (GenesisHash + 2)

\* time.Now().Unix() at a call of addfutureHeader
Nows == 0..MaxNow

\* addfutureHeader with the allowance a second shorter
FutureMaxShort(now) == now + maxTimeFutureHeaders - 1

\* addfutureHeader, line 1255: the latest header time allowed at time now
FutureMax(now) == now + maxTimeFutureHeaders

\* addfutureHeader(header), lines 1254-1263, called at time now
AddfutureHeader(h, now) ==
    /\ LET max == FutureMax(now)
       IN IF HeaderTime(h) > max
             THEN /\ addResult' = [header |-> h, now |-> now,
                                   err |-> "future block timestamp > allowed"]
                  /\ UNCHANGED futureHeaders
          ELSE /\ addResult' = [header |-> h, now |-> now, err |-> "nil"]
               /\ futureHeaders' = futureHeaders \cup {h}
    /\ appendResult' = NoResult
    /\ lastEvent' = NoEvent
    /\ minerFeed' = NoFeed
    /\ UNCHANGED <<nodeCtx, dbHeaders, dbTermini, dbTd, currentHead, phCache,
                   pendingHeaderHeadHash, phCachemu, pc, call, reader, sweep>>
    /\ relay' = NoRelay
    /\ SliceOnly

\* the orders sort.Slice can leave the headers of S in: ascending by number,
\* headers of the same number in any order
SortedByNumber(S) ==
    {order \in [1..Cardinality(S) -> S] :
        /\ \A i, j \in 1..Cardinality(S) : i # j => order[i] # order[j]
        /\ \A i, j \in 1..Cardinality(S) :
              i < j => HeaderNumber(order[i]) <= HeaderNumber(order[j])}

\* procfutureHeaders, lines 1228-1238: the headers of the cache, sorted
ProcfutureHeaders ==
    /\ sweep.pc = "idle"
    /\ \A p \in Procs : pc[p] = "idle"
    /\ futureHeaders # {}
    /\ \E order \in SortedByNumber(futureHeaders) :
         sweep' = [pc |-> "call", todo |-> order, err |-> "nil"]
    /\ appendResult' = NoResult
    /\ lastEvent' = NoEvent
    /\ minerFeed' = NoFeed
    /\ addResult' = NoAdd
    /\ UNCHANGED <<nodeCtx, dbHeaders, dbTermini, dbTd, currentHead, phCache,
                   pendingHeaderHeadHash, futureHeaders, phCachemu, pc, call,
                   reader>>
    /\ relay' = NoRelay
    /\ SliceOnly

\* procfutureHeaders removing the header on every error
SweepRemovesOnAnyError(err) == err # "nil"

\* procfutureHeaders, lines 1243-1244: whether the error of the Append makes
\* the sweep remove the header
SweepRemoves(err) == err # "nil" /\ err # "sub not synced to dom"

\* procfutureHeaders, lines 1243-1248: what the sweep does with the error of
\* its Append, and the next header of the loop
ProcfutureHeadersResult ==
    /\ sweep.pc = "result"
    /\ futureHeaders' = IF SweepRemoves(sweep.err)
                            THEN futureHeaders \ {Head(sweep.todo)}
                         ELSE futureHeaders
    /\ sweep' = IF Len(sweep.todo) > 1
                    THEN [pc |-> "call", todo |-> Tail(sweep.todo), err |-> "nil"]
                 ELSE NoSweep
    /\ appendResult' = NoResult
    /\ lastEvent' = NoEvent
    /\ minerFeed' = NoFeed
    /\ addResult' = NoAdd
    /\ UNCHANGED <<nodeCtx, dbHeaders, dbTermini, dbTd, currentHead, phCache,
                   pendingHeaderHeadHash, phCachemu, pc, call, reader>>
    /\ relay' = NoRelay
    /\ SliceOnly

SliceNext ==
    \/ \E p \in Procs, h \in Headers, domOrigin \in BOOLEAN,
          domTerminus \in {Nil} \cup DomTermini, td \in {0} \cup DomTds, reorg \in BOOLEAN :
          SliceAppend(p, h, domOrigin, domTerminus, td, reorg)
    \/ \E p \in Procs : AppendBlock(p)
    \/ \E p \in Procs : AppendLock(p)
    \/ \E p \in Procs : AppendSub(p)
    \/ \E p \in Procs : AppendWrite(p)
    \/ \E p \in Procs : SetHeaderChainHead(p)
    \/ \E p \in Procs : AppendCache(p)
    \/ \E reorg, here \in BOOLEAN : SubRelayPendingHeader(reorg, here)
    \/ GetPendingHeader
    \/ GetPendingHeaderLookup

\* The slice with its future headers: addfutureHeader, the sweep of
\* procfutureHeaders and the Appends that do not come from a dominant node,
\* which are the ones the sweep makes (line 1242).
FutureNext ==
    \/ \E p \in Procs, h \in Headers : SliceAppend(p, h, FALSE, Nil, 0, FALSE)
    \/ \E p \in Procs : AppendBlock(p)
    \/ \E p \in Procs : AppendLock(p)
    \/ \E p \in Procs : AppendSub(p)
    \/ \E p \in Procs : AppendWrite(p)
    \/ \E p \in Procs : SetHeaderChainHead(p)
    \/ \E p \in Procs : AppendCache(p)
    \/ \E h \in Headers, now \in Nows : AddfutureHeader(h, now)
    \/ ProcfutureHeaders
    \/ ProcfutureHeadersResult

\* The errors of an Append that come from the node's storage and block data, not
\* from the header or the state of the subordinate.
StorageErrors ==
    {"could not find the tx and uncle data",
     "unable to find pending etxs for hash in manifest", "header chain append failed",
     "generate pending header failed", "sub append failed", "unable to get ETX rollup",
     "batch write failed", "set current header failed"}

\* The slice retrying its future headers on a node whose storage works: an
\* Append fails for what its header is or with SubNotSynced only.
RetryAppend(p, h) ==
    /\ SliceAppend(p, h, FALSE, Nil, 0, FALSE)
    /\ appendResult'.err \notin StorageErrors

RetryStep(p) ==
    /\ \/ AppendBlock(p)
       \/ AppendLock(p)
       \/ AppendSub(p)
       \/ AppendWrite(p)
       \/ SetHeaderChainHead(p)
       \/ AppendCache(p)
    /\ appendResult'.err \notin StorageErrors

RetryNext ==
    \/ \E p \in Procs, h \in Headers : RetryAppend(p, h)
    \/ \E p \in Procs : RetryStep(p)
    \/ \E h \in Headers, now \in Nows : AddfutureHeader(h, now)
    \/ ProcfutureHeaders
    \/ ProcfutureHeadersResult

\* updateFutureHeaders, lines 1266-1277: the ticker starts a sweep every three
\* seconds for as long as the node runs; a sweep and the Append it calls run to
\* their end
RetryFair ==
    /\ SF_vars(ProcfutureHeaders)
    /\ WF_vars(ProcfutureHeadersResult)
    /\ WF_vars(sweep.pc = "call" /\ \E p \in Procs, h \in Headers : RetryAppend(p, h))
    /\ \A p \in Procs : WF_vars(RetryStep(p))

\* The slice on a node whose storage works, with one header more than Headers:
\* a second header on a coincident block, which shares its terminus.
PickHeaders == Headers \cup {GenesisHash + MaxHeaders + 1}

PickAppend(p, h, domOrigin, domTerminus, td, reorg) ==
    /\ SliceAppend(p, h, domOrigin, domTerminus, td, reorg)
    /\ appendResult'.err \notin StorageErrors

PickNext ==
    \/ \E p \in Procs, h \in PickHeaders, domOrigin \in BOOLEAN,
          domTerminus \in {Nil} \cup DomTermini, td \in {0} \cup DomTds, reorg \in BOOLEAN :
          PickAppend(p, h, domOrigin, domTerminus, td, reorg)
    \/ \E p \in Procs : RetryStep(p)
    \/ \E reorg, here \in BOOLEAN : SubRelayPendingHeader(reorg, here)

\* Two callers of Append at once on one node, neither of them a dominant node:
\* the Appends of blocks arriving from the network and from the sweep.
RaceProcs == 1 .. (MaxProcs + 1)

RaceNext ==
    \/ \E p \in RaceProcs, h \in Headers : SliceAppend(p, h, FALSE, Nil, 0, FALSE)
    \/ \E p \in RaceProcs : AppendBlock(p)
    \/ \E p \in RaceProcs : AppendLock(p)
    \/ \E p \in RaceProcs : AppendSub(p)
    \/ \E p \in RaceProcs : AppendWrite(p)
    \/ \E p \in RaceProcs : SetHeaderChainHead(p)
    \/ \E p \in RaceProcs : AppendCache(p)

\* ---------------------------------------------------------------------------
\* Claims about Slice
\* ---------------------------------------------------------------------------

\* C1: a failed Append leaves no partial state: whenever Append returns an
\* error, local storage, the current head, the pending-header cache and the
\* pending header head hash are as they were before the call touched them.
C1_FailedAppendLeavesNoState == appendResult.err # "nil" => ~appendResult.dirty

\* C2: HLCR.  In an Append that is not dom-originated, reorg is true iff the
\* parent's td plus the header's difficulty is strictly greater than the td of
\* the current head.  If reorg, the current head becomes the header, a
\* chain-head event is sent and the pending header head hash becomes the
\* header's terminus; if not (an equal td included), the current head stays
\* and a chain-side event is sent.
C2_Hlcr ==
    [][\A p \in Procs :
         LET c == call[p]
             h == c.header
         IN ~c.domOrigin =>
              /\ (pc[p] = "block" /\ pc'[p] = "lock") =>
                    (call'[p].reorg <=>
                        dbTd[HeaderParent(h)] + HeaderDifficulty(h) > dbTd[currentHead])
              /\ (pc[p] = "head" /\ pc'[p] = "cache") =>
                    IF c.reorg
                       THEN /\ currentHead' = h
                            /\ lastEvent' = [kind |-> "ChainHeadEvent", block |-> h]
                    ELSE /\ currentHead' = currentHead
                         /\ lastEvent' = [kind |-> "ChainSideEvent", block |-> h]
              /\ (pc[p] = "cache" /\ pc'[p] = "idle" /\ c.reorg) =>
                    pendingHeaderHeadHash' = c.newTermini[terminiIndex + 1]]_vars

\* C2 witness: on a Prime node a sibling whose td equals the td of the head was
\* appended: the head stayed and a chain-side event was sent.
C2_Witness ==
    /\ nodeCtx = PRIME_CTX
    /\ lastEvent.kind = "ChainSideEvent"
    /\ lastEvent.block # currentHead
    /\ currentHead # GenesisHash
    /\ dbTd[lastEvent.block] = dbTd[currentHead]

\* the header is coincident and its parent's termini[3] differs from the dom
\* terminus, after the genesis escape
CyclicReference(h, domTerminus) ==
    LET termini == GetTerminiByHash(HeaderParent(h))
    IN /\ IsCoincident(h)
       /\ Len(termini) = 4
       /\ termini[terminiIndex + 1] #
             (IF HeaderPrimeParent(h) = GenesisHash THEN GenesisHash ELSE domTerminus)

\* C3: PCRC cyclic rejection.  An Append that gets to PCRC with a coincident
\* header whose parent's termini[3] differs from the dom terminus returns the
\* cyclic-reference error, and the call stores nothing: storage, the current
\* head and the pending-header cache are as before.
C3_CyclicRejection ==
    [][\A p \in Procs :
         LET went == pc'[p] = "block"
             h == IF went THEN call'[p].header ELSE appendResult'.header
             d == IF went THEN call'[p].domTerminus ELSE appendResult'.domTerminus
         IN (/\ pc[p] = "idle"
             /\ went \/ appendResult'.proc = p
             /\ h \notin dbHeaders
             /\ appendResult'.err # "could not find the tx and uncle data"
             /\ CyclicReference(h, d))
            => /\ ~went
               /\ appendResult'.err =
                     "termini do not match, block rejected due to cyclic reference"
               /\ LocalState' = LocalState]_vars

\* C3 witness: an Append returned the cyclic-reference error
C3_Witness ==
    /\ appendResult.err = "termini do not match, block rejected due to cyclic reference"
    /\ appendResult.header \notin dbHeaders
    /\ appendResult.header \notin DOMAIN dbTermini

\* C4: the pending-header cache is never read while a writer holds the cache
\* lock: no reader is between its load of the head hash and its lookup in the
\* cache while an Append or a SubRelayPendingHeader holds sl.phCachemu.
C4_ReadersExcluded == reader.pc = "lookup" => phCachemu = Nil


\* C13: for every header H accepted by Append, the stored termini of H have
\* termini[3] = H when the node is Prime or H is coincident (its order is below
\* the context of the node), and else termini[3] of the parent of H.
C13_TerminusOfAccepted ==
    \A h \in dbHeaders \ {GenesisHash} :
        /\ h \in DOMAIN dbTermini
        /\ HeaderParent(h) \in DOMAIN dbTermini
        /\ dbTermini[h][terminiIndex + 1] =
              IF nodeCtx = PRIME_CTX \/ HeaderOrder(h) < nodeCtx THEN h
              ELSE dbTermini[HeaderParent(h)][terminiIndex + 1]

\* a node below Prime has accepted a header that is not coincident and a
\* coincident header on top of it
C13_Witness ==
    /\ nodeCtx # PRIME_CTX
    /\ \E h, k \in dbHeaders \ {GenesisHash} :
          /\ ~(HeaderOrder(h) < nodeCtx)
          /\ HeaderOrder(k) < nodeCtx
          /\ HeaderParent(k) = h


\* C14: after a successful Append of a header with new termini T, the pending
\* header cache holds an entry under the key T[3] whose termini[3] is T[3] and
\* whose header number is at least the number of the appended block.
C14_CacheHoldsPendingHeader ==
    appendResult.result = "pendingEtxs" =>
        LET h == appendResult.header
            key == dbTermini[h][terminiIndex + 1]
        IN /\ key \in DOMAIN phCache
           /\ phCache[key].termini[terminiIndex + 1] = key
           /\ phCache[key].header.number[nodeCtx + 1] >= HeaderNumber(h)

\* an Append succeeded for a header that inherits its terminus, or for a header
\* handed down by the dominant node
C14_Witness ==
    /\ appendResult.result = "pendingEtxs"
    /\ \/ dbTermini[appendResult.header][terminiIndex + 1] # appendResult.header
       \/ appendResult.domOrigin


\* C29: once a successful Append has run, the pending-header cache always holds
\* an entry under pending_header_head_hash, after any further sequence of
\* Append, SubRelayPendingHeader and gcPendingHeaders calls, so GetPendingHeader
\* never finds the entry missing.  Only the last step of a successful Append
\* adds a key to the cache, so a cache that is not empty tells that one has run.
C29_HeadEntryPresent ==
    phCache # <<>> => pendingHeaderHeadHash \in DOMAIN phCache


\* C30: pending-head selection in Append when reorg is false: if the
\* pending-header cache already held an entry for the new pending header's
\* terminus with a smaller header number, and the TD of the new pending header's
\* parent exceeds the TD of the parent of the current pending head, then
\* pending_header_head_hash becomes the new terminus; when reorg is true the
\* new terminus always becomes the pending head.
C30_PendingHeadSelection ==
    [][\A p \in Procs :
          (pc[p] = "cache" /\ pc'[p] = "idle") =>
            LET c == call[p]
                ctx == nodeCtx + 1
                terminus == c.ph.termini[terminiIndex + 1]
                head == pendingHeaderHeadHash
            IN /\ c.reorg => pendingHeaderHeadHash' = terminus
               /\ (/\ ~c.reorg
                   /\ terminus \in DOMAIN phCache
                   /\ phCache[terminus].header.number[ctx] < c.ph.header.number[ctx]
                   /\ head \in DOMAIN phCache
                   /\ c.ph.header.parent[ctx] \in DOMAIN dbTd
                   /\ phCache[head].header.parent[ctx] \in DOMAIN dbTd
                   /\ dbTd[c.ph.header.parent[ctx]] > dbTd[phCache[head].header.parent[ctx]])
                  => pendingHeaderHeadHash' = terminus
      ]_vars


\* ---------------------------------------------------------------------------
\* Claims about SubRelayPendingHeader
\* ---------------------------------------------------------------------------

\* the cache entry under key t after the Prime and Region fields of the relayed
\* pending header dom have been merged into it
ZoneMerged(entry, dom) ==
    [header |-> [number |-> <<dom.number[1], dom.number[2], entry.header.number[3]>>,
                 parent |-> <<dom.parent[1], dom.parent[2], entry.header.parent[3]>>],
     termini |-> entry.termini]

\* C31: in a Zone, SubRelayPendingHeader with origin_location equal to the
\* zone's own location changes no cache entry and sends nothing to the miner
\* feed; with a different origin it merges the Prime and Region context fields
\* into the cached pending header keyed by the relayed termini and then sends
\* the current best pending header to the miner feed.
C31_ZoneRelay ==
    [][(nodeCtx = ZONE_CTX /\ relay'.pc = "done") =>
          IF relay'.here
             THEN phCache' = phCache /\ minerFeed' = NoFeed
          ELSE LET t == relay'.terminus
               IN /\ t \in DOMAIN phCache'
                  /\ phCache'[t] = ZoneMerged(phCache[t], DomPendingHeader(t))
                  /\ minerFeed' = [kind |-> "header", hash |-> pendingHeaderHeadHash']
      ]_vars

\* C31, for the cache as it is: the merge happens when the cache holds an entry
\* under the relayed terminus, the miner feed gets the entry under the head hash
\* when there is one, and otherwise the call changes and sends nothing.
C31_ZoneRelayOfCached ==
    [][(nodeCtx = ZONE_CTX /\ relay'.pc = "done") =>
          IF relay'.here \/ relay'.terminus \notin DOMAIN phCache
             THEN phCache' = phCache /\ minerFeed' = NoFeed
          ELSE LET t == relay'.terminus
               IN /\ DOMAIN phCache' = DOMAIN phCache
                  /\ \A k \in DOMAIN phCache \ {t} : phCache'[k] = phCache[k]
                  /\ phCache'[t] = ZoneMerged(phCache[t], DomPendingHeader(t))
                  /\ minerFeed' = IF pendingHeaderHeadHash' \in DOMAIN phCache'
                                     THEN [kind |-> "header", hash |-> pendingHeaderHeadHash']
                                  ELSE NoFeed
      ]_vars

\* a Zone has merged a pending header relayed from another location into an
\* entry that was built locally, and has sent the head entry to the miner
C31_Witness ==
    /\ nodeCtx = ZONE_CTX
    /\ relay.pc = "done"
    /\ ~relay.here
    /\ relay.terminus \in DOMAIN phCache
    /\ phCache[relay.terminus].header.parent[ZONE_CTX + 1] # Nil
    /\ phCache[relay.terminus].header.parent[REGION_CTX + 1] = relay.terminus
    /\ minerFeed = [kind |-> "header", hash |-> pendingHeaderHeadHash]


\* ---------------------------------------------------------------------------
\* Claims about the future headers
\* ---------------------------------------------------------------------------

\* C15: Append on a header whose hash is already in the local header chain is
\* a no-op: it returns (nil, nil) and evicts the hash from the future headers;
\* it changes neither storage (headers, termini, td), the current head, the
\* pending header cache nor the pending header head hash, and it returns
\* before any call of the subordinate.
C15_KnownHeaderNoOp ==
    [][\A p \in Procs :
          (pc[p] = "idle" /\ appendResult'.proc = p /\ appendResult'.header \in dbHeaders) =>
             /\ appendResult'.err = "nil"
             /\ appendResult'.result = "nil"
             /\ futureHeaders' = futureHeaders \ {appendResult'.header}
             /\ UNCHANGED <<dbHeaders, dbTermini, dbTd, currentHead, phCache,
                            pendingHeaderHeadHash>>
             /\ pc'[p] = "idle"]_vars

\* the sweep called Append on a header of the future headers that was already
\* in the header chain, and Append returned (nil, nil)
C15_Witness ==
    /\ sweep.pc = "result"
    /\ sweep.err = "nil"
    /\ Head(sweep.todo) \in dbHeaders
    /\ appendResult.header = Head(sweep.todo)
    /\ appendResult.result = "nil"

\* C16: in the sweep of the future headers, a header whose Append fails with
\* "sub not synced to dom" stays in the cache (the sweep does not remove it), a
\* header whose Append fails with any other error is removed from the cache
\* by the sweep, and a header whose Append succeeds is out of the cache when
\* the Append returns.
C16_SweepRetention ==
    [][/\ (sweep.pc \in {"call", "wait"} /\ sweep'.pc = "result" /\ sweep'.err = "nil") =>
             Head(sweep.todo) \notin futureHeaders'
       /\ (sweep.pc = "result" /\ sweep'.pc # "result") =>
             /\ sweep.err = "sub not synced to dom" =>
                   (Head(sweep.todo) \in futureHeaders => Head(sweep.todo) \in futureHeaders')
             /\ sweep.err \notin {"nil", "sub not synced to dom"} =>
                   Head(sweep.todo) \notin futureHeaders']_vars

\* the sweep went on from a header whose Append failed with "sub not synced to
\* dom", which is still in the cache, to the next header
C16_Witness ==
    /\ sweep.pc = "result"
    /\ sweep.err = "sub not synced to dom"
    /\ Head(sweep.todo) \in futureHeaders
    /\ Len(sweep.todo) > 1

\* C17: addfutureHeader rejects with an error, and does not cache, a header
\* with time > now + 30 s (the first at now + 31 s); a header with
\* time <= now + 30 s is accepted and is in the future headers afterwards.
C17_FutureHeaderWindow ==
    [][addResult'.err # "none" =>
          LET h == addResult'.header
              now == addResult'.now
          IN IF HeaderTime(h) > now + 30
                THEN addResult'.err # "nil" /\ futureHeaders' = futureHeaders
             ELSE addResult'.err = "nil" /\ h \in futureHeaders']_vars

\* a header of time now + 31 was rejected while a header of time now + 30 is
\* in the cache
C17_Witness ==
    /\ addResult.err \notin {"none", "nil"}
    /\ HeaderTime(addResult.header) = addResult.now + 31
    /\ \E k \in futureHeaders : HeaderTime(k) = addResult.now + 30


\* ---------------------------------------------------------------------------
\* Claims about concurrent Appends
\* ---------------------------------------------------------------------------

\* C25: the head TD never decreases: for any sequence and any interleaving of
\* concurrent non-dom-originated Append calls on one node, whenever the current
\* head is replaced, the TD of the new head is strictly greater than the TD of
\* the head it replaces.
C25_HeadTdIncreases ==
    [][currentHead' # currentHead => dbTd'[currentHead'] > dbTd[currentHead]]_vars


(***************************************************************************)
(*   The hierarchy of slices: a Prime node, its Region nodes and their     *)
(*   Zone nodes, each running the code of core/chain_makers.go, and the    *)
(*   calls Append and SubRelayPendingHeader make from node to node while   *)
(*   holding sl.phCachemu                                                  *)
(***************************************************************************)
\* Bounds of the hierarchy model.
HierWidth == 2       \* subordinate nodes of a Prime or Region node
MaxThreads == 2      \* concurrent callers from outside the hierarchy

Threads == 1 .. MaxThreads
SubIndices == 0 .. (HierWidth - 1)

\* a node is its location: <<>> for Prime, <<region>>, <<region, zone>>; its
\* length is its context
HierNodes ==
    {<<>>} \cup {<<r>> : r \in SubIndices} \cup {<<r, z>> : r \in SubIndices, z \in SubIndices}

\* a region that takes the Prime node for one of its subordinates
HierSubOrDom(n, i) == IF Len(n) = REGION_CTX /\ i = 0 THEN <<>> ELSE Append(n, i)

\* sl.subClients[i] of node n
HierSub(n, i) == Append(n, i)

\* the locations a block can have: the Zone chains
HierLocations == {n \in HierNodes : Len(n) = ZONE_CTX}

\* a Region relaying to the Zones other than the one the block comes from
HierRelayTargetsOthers(f) ==
    IF f.op = "Append" /\ ~f.domOrigin /\ Len(f.node) # ZONE_CTX
       THEN SubIndices
    ELSE IF f.op = "SubRelayPendingHeader" /\ Len(f.node) = REGION_CTX
       THEN {i \in SubIndices : Append(f.node, i) # f.location}
    ELSE {}

\* the subordinates a call relays the pending header to: relayPh, lines 762-766,
\* for an Append that does not come from the dominant node; SubRelayPendingHeader,
\* lines 993-995, on a Region node
HierRelayTargets(f) ==
    IF \/ f.op = "Append" /\ ~f.domOrigin /\ Len(f.node) # ZONE_CTX
       \/ f.op = "SubRelayPendingHeader" /\ Len(f.node) = REGION_CTX
       THEN SubIndices
    ELSE {}

HierFrame(n, op, domOrigin, location) ==
    [node |-> n, op |-> op, domOrigin |-> domOrigin, location |-> location,
     pc |-> "lock", i |-> 0]

\* the innermost call of the stack returns to its caller: an Append waiting for
\* its subordinate's Append goes on to the write and the relay, or returns the
\* error it got (lines 696-699); a relay loop goes on to the next subordinate
HierPop(stack, ok) ==
    LET n == Len(stack)
    IN IF n = 1 THEN <<>>
       ELSE LET caller == stack[n - 1]
                resumed == IF caller.pc = "subwait"
                              THEN [caller EXCEPT !.pc = IF ok THEN "relay" ELSE "fail"]
                           ELSE [caller EXCEPT !.pc = "relay"]
            IN SubSeq(stack, 1, n - 2) \o <<resumed>>

HierOnly == UNCHANGED <<etxVars, genVars, txVars, vhVars, batchVars, nodeVars, pendVars>>

HierInit ==
    /\ hLock = [n \in HierNodes |-> Nil]
    /\ hStack = [t \in Threads |-> <<>>]

\* Append called on node n by a caller that is not its dominant node, for a
\* block of the Zone chain location, which lies in the slice of n
HierAppend(t, n, location) ==
    /\ hStack[t] = <<>>
    /\ SubSeq(location, 1, Len(n)) = n
    /\ hStack' = [hStack EXCEPT ![t] = <<HierFrame(n, "Append", FALSE, location)>>]
    /\ UNCHANGED hLock
    /\ HierOnly

\* Append returns an error before line 681: nothing is locked
HierReturnEarly(t) ==
    /\ hStack[t] # <<>>
    /\ LET f == hStack[t][Len(hStack[t])]
       IN /\ f.op = "Append"
          /\ f.pc = "lock"
          /\ hStack' = [hStack EXCEPT ![t] = HierPop(hStack[t], FALSE)]
    /\ UNCHANGED hLock
    /\ HierOnly

\* sl.phCachemu.Lock(), lines 681 and 972
HierLock(t) ==
    /\ hStack[t] # <<>>
    /\ LET k == Len(hStack[t])
           f == hStack[t][k]
       IN /\ f.pc = "lock"
          /\ hLock[f.node] = Nil
          /\ hLock' = [hLock EXCEPT ![f.node] = t]
          /\ hStack' = [hStack EXCEPT ![t][k].pc =
                IF f.op = "Append" /\ Len(f.node) # ZONE_CTX THEN "sub" ELSE "relay"]
    /\ HierOnly

\* sl.subClients[location.SubIndex()].Append(..., true, ...), line 696
HierCallSub(t) ==
    /\ hStack[t] # <<>>
    /\ LET k == Len(hStack[t])
           f == hStack[t][k]
       IN /\ f.pc = "sub"
          /\ hStack' = [hStack EXCEPT ![t] =
                [hStack[t] EXCEPT ![k].pc = "subwait"]
                    \o <<HierFrame(HierSub(f.node, f.location[Len(f.node) + 1]),
                                   "Append", TRUE, f.location)>>]
    /\ UNCHANGED hLock
    /\ HierOnly

\* sl.subClients[i].SubRelayPendingHeader(...), lines 764 and 994
HierRelaySub(t) ==
    /\ hStack[t] # <<>>
    /\ LET k == Len(hStack[t])
           f == hStack[t][k]
       IN /\ f.pc = "relay"
          /\ f.i \in HierRelayTargets(f)
          /\ hStack' = [hStack EXCEPT ![t] =
                [hStack[t] EXCEPT ![k].pc = "relaywait", ![k].i = f.i + 1]
                    \o <<HierFrame(HierSub(f.node, f.i), "SubRelayPendingHeader",
                                   FALSE, f.location)>>]
    /\ UNCHANGED hLock
    /\ HierOnly

\* the call returns and its deferred sl.phCachemu.Unlock() runs: after the
\* relay, or with the error of the subordinate, of the ETX rollup, of
\* batch.Write or of setHeaderChainHead (lines 697-730), or, in a Region that
\* relays a block of another Region, with the error of updatePhCacheFromDom
\* (lines 985-990)
HierReturn(t) ==
    /\ hStack[t] # <<>>
    /\ LET f == hStack[t][Len(hStack[t])]
       IN /\ \E ok \in BOOLEAN :
                /\ IF ok THEN f.pc = "relay" /\ f.i \notin HierRelayTargets(f)
                   ELSE \/ f.pc = "fail"
                        \/ f.pc = "relay" /\ f.op = "Append" /\ f.i = 0
                        \/ /\ f.pc = "relay" /\ f.op = "SubRelayPendingHeader" /\ f.i = 0
                           /\ Len(f.node) = REGION_CTX
                           /\ f.location[1] # f.node[1]
                /\ hStack' = [hStack EXCEPT ![t] = HierPop(hStack[t], ok)]
          /\ hLock' = [hLock EXCEPT ![f.node] = Nil]
    /\ HierOnly

HierNext ==
    \/ \E t \in Threads, n \in HierNodes, location \in HierLocations : HierAppend(t, n, location)
    \/ \E t \in Threads : HierReturnEarly(t)
    \/ \E t \in Threads : HierLock(t)
    \/ \E t \in Threads : HierCallSub(t)
    \/ \E t \in Threads : HierRelaySub(t)
    \/ \E t \in Threads : HierReturn(t)


\* C27: an Append at a Prime or Region node always terminates even when the
\* subordinate never answers: the subordinate call times out, Append returns
\* SubNotSynced, and the pending-header cache lock is released so that other
\* Append, SubRelayPendingHeader and reader calls can proceed.
C27_AppendOutlivesSilentSub ==
    \A p \in RaceProcs :
        (nodeCtx # ZONE_CTX /\ pc[p] = "sub") ~> (pc[p] = "idle" /\ phCachemu # p)


\* ---------------------------------------------------------------------------
\* Claims about the retry of future headers
\* ---------------------------------------------------------------------------

\* the sweep has just got SubNotSynced from its Append of the retained header h:
\* the header passed every check of the node itself
KeptForRetry(h) ==
    /\ sweep.pc = "result"
    /\ sweep.err = "sub not synced to dom"
    /\ Head(sweep.todo) = h
    /\ h \in futureHeaders

\* C28: liveness of the SubNotSynced retry: a header retained in the
\* future-headers cache whose Append fails only with SubNotSynced is eventually
\* appended and evicted once the subordinate becomes and stays synced, assuming
\* the periodic sweep keeps running, the node is not stopped and fewer than 256
\* headers are retained.
C28_RetryLiveness ==
    (<>[][appendResult'.err # "sub not synced to dom"]_vars) =>
        \A h \in Headers :
            KeptForRetry(h) ~> (h \in dbHeaders /\ h \notin futureHeaders)

\* the Append of a sweep has returned SubNotSynced for a retained header that
\* is not in the header chain
C28_Witness ==
    \E h \in Headers :
        /\ KeptForRetry(h)
        /\ h \notin dbHeaders
        /\ appendResult.header = h
        /\ appendResult.err = "sub not synced to dom"


\* ---------------------------------------------------------------------------
\* Claims about the hierarchy
\* ---------------------------------------------------------------------------

\* the thread the innermost call of t waits for: the holder of the lock it asks for
HierWaitsFor(t) ==
    IF hStack[t] # <<>> /\ hStack[t][Len(hStack[t])].pc = "lock"
       THEN hLock[hStack[t][Len(hStack[t])].node]
    ELSE Nil

\* whether following the holders from thread u leads to thread t in at most k steps
RECURSIVE HierReaches(_, _, _)
HierReaches(u, t, k) ==
    /\ u # Nil
    /\ k > 0
    /\ (u = t \/ HierReaches(HierWaitsFor(u), t, k - 1))

\* C26: no deadlock across the hierarchy: for any set of concurrent Append and
\* SubRelayPendingHeader calls on Prime, Region and Zone nodes, a node holding
\* its pending-header cache lock only ever waits on calls to nodes of a strictly
\* lower level, so there is no cycle of nodes waiting for each other's lock.
C26_NoLockCycle ==
    /\ \A t \in Threads : \A k \in 1 .. (Len(hStack[t]) - 1) :
          /\ hLock[hStack[t][k].node] = t
          /\ Len(hStack[t][k + 1].node) > Len(hStack[t][k].node)
    /\ \A t \in Threads : ~HierReaches(HierWaitsFor(t), t, MaxThreads)

\* a Prime Append holds the Prime lock while its Region subordinate, holding its
\* own, waits for a Zone whose lock another caller's Append holds
C26_Witness ==
    \E t \in Threads, u \in Threads :
        /\ t # u
        /\ Len(hStack[t]) = 3
        /\ hStack[t][1].node = <<>> /\ hLock[<<>>] = t
        /\ hLock[hStack[t][2].node] = t
        /\ hStack[t][3].pc = "lock"
        /\ hLock[hStack[t][3].node] = u


\* the SubRelayPendingHeader calls in progress: thread and stack position
HierRelayCalls ==
    {c \in Threads \X (1 .. (REGION_CTX + ZONE_CTX + 1)) :
        /\ c[2] <= Len(hStack[c[1]])
        /\ hStack[c[1]][c[2]].op = "SubRelayPendingHeader"}

\* C32: in a Region, SubRelayPendingHeader forwards the composed pending header
\* only to the sub-indices other than the one that was already updated
\* synchronously inside Append: the Zone whose block originated the relay
\* receives no SubRelayPendingHeader call for it.
C32_OriginZoneNotCalled ==
    \A c \in HierRelayCalls :
        LET f == hStack[c[1]][c[2]]
        IN (c[2] > 1 /\ hStack[c[1]][c[2] - 1].op = "SubRelayPendingHeader")
              => f.node # f.location

\* C32, as the code forwards: a Region's SubRelayPendingHeader for a block of
\* its own Region returns only after it has called every one of its Zones, the
\* Zone of the block included, each with the location of the block.
C32_RegionForwardsToAll ==
    [][\A t \in Threads :
          LET k == Len(hStack[t])
          IN (/\ k > 0
              /\ Len(hStack'[t]) < k
              /\ hStack[t][k].op = "SubRelayPendingHeader"
              /\ Len(hStack[t][k].node) = REGION_CTX
              /\ hStack[t][k].location[1] = hStack[t][k].node[1])
                => hStack[t][k].i = HierWidth
      ]_vars

\* every SubRelayPendingHeader call is made for the location of the block whose
\* Append started the relay, by the dominant node of the callee
C32_RelayCarriesLocation ==
    \A c \in HierRelayCalls :
        LET f == hStack[c[1]][c[2]]
            caller == hStack[c[1]][c[2] - 1]
        IN /\ c[2] > 1
           /\ caller.pc = "relaywait"
           /\ f.node = Append(caller.node, caller.i - 1)
           /\ f.location = caller.location
           /\ f.location = hStack[c[1]][1].location

\* the Region of a block relays the Prime node's pending header to the Zone the
\* block comes from, which has taken its lock for it
C32_Witness ==
    \E t \in Threads :
        /\ Len(hStack[t]) = 3
        /\ hStack[t][1].node = <<>> /\ hStack[t][1].op = "Append"
        /\ hStack[t][2].op = "SubRelayPendingHeader"
        /\ hStack[t][3].op = "SubRelayPendingHeader"
        /\ hStack[t][3].node = hStack[t][3].location
        /\ hLock[hStack[t][3].node] = t


(***************************************************************************)
(*   core/chain_makers.go: the pending ETXs of the subordinate blocks      *)
(*   (AddPendingEtxs, CollectEtxsForManifest) and the inbound ETXs a       *)
(*   block newly confirms (CollectNewlyConfirmedEtxs)                      *)
(***************************************************************************)
\* Bounds of the pending ETX model.
MaxPendingEtxBlocks == 2   \* stands for maxPendingEtxBlocks, the size of the LRU cache
MaxManifestHash == 3       \* sub-block hashes 1..MaxManifestHash
MaxCollectChain == 3       \* blocks of the chain CollectNewlyConfirmedEtxs walks, genesis included

ManifestHashes == 1 .. MaxManifestHash

\* ETXs 1..5 are the pending ETXs of sub-blocks, ETX 5 + k is emitted by the
\* block of number k - 1; ETX MaxEtx goes to OtherLocation, the others to NodeLocation
CollectEtxs == 1 .. (5 + MaxCollectChain)

\* tx.ConfirmationCtx(): the cached context of the common dominant chain
ConfirmationCtx(e) ==
    IF e \in {3, 7} THEN ZONE_CTX ELSE IF e \in {5} THEN PRIME_CTX ELSE REGION_CTX

\* Location.InSameSliceAs, for the locations of two Zone chains
InSameSliceAs(a, b) == a = b

\* the []types.Transactions a sub-block has handed up: Prime, Region, Zone
PendingEtxsSamples ==
    {<<<<1>>, <<2>>, <<3>>>>, <<<<4>>, <<>>, <<5>>>>}

PendingEtxsOf(h) == IF h = 1 THEN <<<<1>>, <<2>>, <<3>>>> ELSE <<<<4>>, <<>>, <<5>>>>

BlockManifests == {<<>>, <<1, 2>>, <<2, 1>>, <<MaxManifestHash>>}

FilterToSlice(s, slice) ==
    SelectSeq(s, LAMBDA e : InSameSliceAs(EtxToChain(e), slice))

FilterConfirmationCtx(s, ctx) ==
    SelectSeq(s, LAMBDA e : ConfirmationCtx(e) = ctx)

\* the lookup of lines 775-780: the cache first, then the database; <<>> for nil
LookupPendingEtxs(cache, db, hash) ==
    IF hash \in DOMAIN cache THEN cache[hash]
    ELSE IF hash \in DOMAIN db THEN db[hash]
    ELSE <<>>

RECURSIVE CollectEtxsFrom(_, _, _, _, _)
CollectEtxsFrom(cache, db, manifest, i, etxs) ==
    IF i > Len(manifest) THEN [etxs |-> etxs, err |-> "nil"]
    ELSE LET pending == LookupPendingEtxs(cache, db, manifest[i])
         IN IF pending = <<>>
               THEN [etxs |-> <<>>, err |-> "unable to find pending etxs for hash in manifest"]
            ELSE CollectEtxsFrom(cache, db, manifest, i + 1,
                    etxs \o pending[PRIME_CTX + 1] \o pending[REGION_CTX + 1]
                         \o pending[ZONE_CTX + 1])

CollectEtxsForManifestOf(cache, db, manifest) == CollectEtxsFrom(cache, db, manifest, 1, <<>>)

\* a search that ends at a block of the given location, the block included
SearchEndsAtBlock(block, ancestor, location) == block.location = location

\* line 832: the search ends before an ancestor produced by the given location
SearchEnds(block, ancestor, location) == ancestor.location = location

\* the result with the ancestors' ETXs after the block's
JoinNewestFirst(ancEtxs, newlyConfirmedEtxs) == newlyConfirmedEtxs \o ancEtxs

\* line 841
JoinEtxs(ancEtxs, newlyConfirmedEtxs) == ancEtxs \o newlyConfirmedEtxs

\* CollectNewlyConfirmedEtxs for the block of number n - 1 of in.chain; visited
\* counts the blocks whose ETXs the result holds
RECURSIVE CollectNewlyConfirmedEtxsOf(_, _, _, _)
CollectNewlyConfirmedEtxsOf(cache, db, in, n) ==
    LET block == in.chain[n]
        referencable == CollectEtxsForManifestOf(cache, db, block.subManifest)
        newInboundEtxs == FilterToSlice(referencable.etxs \o block.ext, in.location)
        newlyConfirmedEtxs == FilterConfirmationCtx(newInboundEtxs, in.nodeCtx)
    IN IF referencable.err # "nil"
          THEN [etxs |-> <<>>, err |-> referencable.err, visited |-> 0]
       ELSE IF n = 1
          THEN IF in.genesisOK
                  THEN [etxs |-> newlyConfirmedEtxs, err |-> "nil", visited |-> 1]
               ELSE [etxs |-> <<>>, err |-> "terminated search on bad genesis", visited |-> 0]
       ELSE IF n - 1 < in.firstKnown
          THEN [etxs |-> <<>>, err |-> "unable to find ancestor", visited |-> 0]
       ELSE IF SearchEnds(block, in.chain[n - 1], in.location)
          THEN [etxs |-> newlyConfirmedEtxs, err |-> "nil", visited |-> 1]
       ELSE LET anc == CollectNewlyConfirmedEtxsOf(cache, db, in, n - 1)
            IN IF anc.err # "nil" THEN anc
               ELSE [etxs |-> JoinEtxs(anc.etxs, newlyConfirmedEtxs), err |-> "nil",
                     visited |-> anc.visited + 1]

Locations == {NodeLocation, OtherLocation}

\* the blocks of number k - 1: produced by a Zone, with a sub-manifest and the
\* ETXs the block emits
BlocksAt(k) ==
    [location : Locations, subManifest : BlockManifests, ext : {<<>>, <<5 + k>>}]

ChainsOf(n) == {c \in [1 .. n -> UNION {BlocksAt(k) : k \in 1 .. n}] :
                    \A k \in 1 .. n : c[k] \in BlocksAt(k)}

\* the calls: a chain whose last block is the argument, the location, the
\* context of the node, whether block 0 is the genesis block of the
\* configuration, and the first block hc.GetBlock finds
CollectInputs ==
    [chain : UNION {ChainsOf(n) : n \in 1 .. MaxCollectChain},
     location : Locations,
     nodeCtx : Contexts,
     genesisOK : BOOLEAN,
     firstKnown : 1 .. 2]

\* no call has returned yet
CollectPending == [etxs |-> <<>>, err |-> "pending", visited |-> 0]

PendOnly == UNCHANGED <<etxVars, genVars, txVars, vhVars, batchVars, nodeVars, hierVars>>

\* the pending ETXs of sub-blocks 1 and 2 have been added; the cache has
\* dropped those of sub-block 2
CollectInit ==
    /\ pendingEtxs = [h \in {1} |-> PendingEtxsOf(h)]
    /\ dbPendingEtxs = [h \in {1, 2} |-> PendingEtxsOf(h)]
    /\ cnIn \in CollectInputs
    /\ cnResult = CollectPending

CollectNewlyConfirmedEtxs ==
    /\ cnResult = CollectPending
    /\ cnResult' = CollectNewlyConfirmedEtxsOf(pendingEtxs, dbPendingEtxs, cnIn, Len(cnIn.chain))
    /\ UNCHANGED <<pendingEtxs, dbPendingEtxs, cnIn>>
    /\ PendOnly

CollectNext == CollectNewlyConfirmedEtxs


\* no pending ETXs have been handed up yet
PendingInit ==
    /\ pendingEtxs = <<>>
    /\ dbPendingEtxs = <<>>
    /\ cnIn = [op |-> "none"]
    /\ cnResult = CollectPending

\* AddPendingEtxs, lines 957-968; when the cache is full, ContainsOrAdd evicts
\* the least recently used entry, here victim
AddPendingEtxs(hash, etxs, victim) ==
    LET contained == hash \in DOMAIN pendingEtxs
        full == Cardinality(DOMAIN pendingEtxs) = MaxPendingEtxBlocks
        kept == IF full THEN DOMAIN pendingEtxs \ {victim} ELSE DOMAIN pendingEtxs
    IN /\ IF contained \/ ~full THEN victim = Nil ELSE victim \in DOMAIN pendingEtxs
       /\ dbPendingEtxs' = IF contained THEN dbPendingEtxs
                           ELSE MapPut(dbPendingEtxs, hash, etxs)
       /\ pendingEtxs' = IF contained THEN pendingEtxs
                         ELSE [h \in kept \cup {hash} |->
                                  IF h = hash THEN etxs ELSE pendingEtxs[h]]
       /\ cnIn' = [op |-> "AddPendingEtxs", hash |-> hash, etxs |-> etxs,
                   contained |-> contained]
       /\ cnResult' = [etxs |-> <<>>, visited |-> 0,
                       err |-> IF contained THEN "nil"
                               ELSE "failed to add pending etxs for block"]
       /\ PendOnly

\* CollectEtxsForManifest, lines 770-787
CollectEtxsForManifest(manifest) ==
    LET res == CollectEtxsForManifestOf(pendingEtxs, dbPendingEtxs, manifest)
    IN /\ cnIn' = [op |-> "CollectEtxsForManifest", manifest |-> manifest]
       /\ cnResult' = [etxs |-> res.etxs, visited |-> 0, err |-> res.err]
       /\ UNCHANGED <<pendingEtxs, dbPendingEtxs>>
       /\ PendOnly

PendingNext ==
    \/ \E hash \in ManifestHashes, etxs \in PendingEtxsSamples,
          victim \in ManifestHashes \cup {Nil} : AddPendingEtxs(hash, etxs, victim)
    \/ \E manifest \in BlockManifests : CollectEtxsForManifest(manifest)

\* ---------------------------------------------------------------------------
\* Claims about CollectNewlyConfirmedEtxs
\* ---------------------------------------------------------------------------
CollectReturned == cnResult.err = "nil"

\* the ETXs a block can reference: those of its sub-manifest, hash by hash, the
\* Prime, Region and Zone lists of each, then the ones the block emits
RECURSIVE ReferencableOfManifest(_, _)
ReferencableOfManifest(manifest, i) ==
    IF i > Len(manifest) THEN <<>>
    ELSE LET p == IF manifest[i] \in DOMAIN pendingEtxs THEN pendingEtxs[manifest[i]]
                  ELSE dbPendingEtxs[manifest[i]]
         IN p[1] \o p[2] \o p[3] \o ReferencableOfManifest(manifest, i + 1)

ReferencableOf(block) == ReferencableOfManifest(block.subManifest, 1) \o block.ext

\* the referenceable ETXs of blocks j..n of the chain, the oldest block first
RECURSIVE ReferencableFromTo(_, _, _)
ReferencableFromTo(chain, j, n) ==
    IF j > n THEN <<>>
    ELSE ReferencableOf(chain[j]) \o ReferencableFromTo(chain, j + 1, n)

\* the ETXs of s that go to the slice of the location and are confirmed at ctx
RestrictedTo(s, location, ctx) ==
    SelectSeq(s, LAMBDA e : EtxToChain(e) = location /\ ConfirmationCtx(e) = ctx)

\* C33: CollectNewlyConfirmedEtxs(block, destination) stops recursing and
\* returns only block's own filtered set when block.location equals
\* destination; it walks to the parent only when block.location differs from
\* destination and block.number > 0.
C33_StopsAtOwnBlock ==
    CollectReturned =>
        LET n == Len(cnIn.chain)
        IN IF cnIn.chain[n].location = cnIn.location
              THEN /\ cnResult.visited = 1
                   /\ cnResult.etxs =
                        RestrictedTo(ReferencableOf(cnIn.chain[n]), cnIn.location, cnIn.nodeCtx)
           ELSE cnResult.visited > 1 => n > 1

\* C33, as the code ends the search: the walk goes from a block to its parent
\* exactly when the block is not block 0 and the parent was not produced by the
\* destination, whatever the location of the block itself; the parent at which
\* the walk ends is not part of the result.
C33_StopsBeforeOwnAncestor ==
    CollectReturned =>
        LET n == Len(cnIn.chain)
            first == n + 1 - cnResult.visited
        IN /\ cnResult.visited \in 1 .. n
           /\ \A k \in first .. (n - 1) : cnIn.chain[k].location # cnIn.location
           /\ first > 1 => cnIn.chain[first - 1].location = cnIn.location

\* the block and the destination have the same location and the result holds
\* the ETXs of the parent, a block of another location, before the block's own
C33_Witness ==
    /\ CollectReturned
    /\ Len(cnIn.chain) = 3
    /\ cnIn.chain[3].location = cnIn.location
    /\ cnIn.chain[2].location # cnIn.location
    /\ cnIn.chain[1].location = cnIn.location
    /\ cnResult.visited = 2
    /\ Len(cnResult.etxs) > Len(RestrictedTo(ReferencableOf(cnIn.chain[3]),
                                            cnIn.location, cnIn.nodeCtx))

\* C34: the result of CollectNewlyConfirmedEtxs is the concatenation, oldest
\* visited ancestor first and the given block last, of each visited block's
\* referenceable ETXs (for each sub-manifest hash in order: its Prime, Region,
\* Zone pending-ETX slices, then the block's own emitted ETXs) restricted to the
\* ETXs whose destination lies in the destination's slice and whose
\* confirmation context equals the node's context.
C34_OldestFirstRestricted ==
    CollectReturned =>
        LET n == Len(cnIn.chain)
        IN cnResult.etxs =
              RestrictedTo(ReferencableFromTo(cnIn.chain, n + 1 - cnResult.visited, n),
                           cnIn.location, cnIn.nodeCtx)

\* three blocks were visited; the result holds ETXs of at least two of them,
\* of a sub-manifest of two hashes and of the block itself, and an ETX of the
\* visited blocks was left out
C34_Witness ==
    /\ CollectReturned
    /\ cnResult.visited = 3
    /\ cnIn.chain[3].subManifest = <<2, 1>>
    /\ cnIn.chain[2].subManifest = <<1, 2>>
    /\ cnIn.chain[3].ext # <<>>
    /\ Len(cnResult.etxs) >= 5
    /\ Len(cnResult.etxs) < Len(ReferencableFromTo(cnIn.chain, 1, 3))


\* ---------------------------------------------------------------------------
\* Claims about AddPendingEtxs
\* ---------------------------------------------------------------------------

\* C40: AddPendingEtxs for a header hash not yet in the pending-ETX cache
\* writes the ETXs to storage, adds them to the cache and returns no error, so
\* that a later CollectEtxsForManifest over that hash finds them.
C40_NewHashAdded ==
    (cnIn.op = "AddPendingEtxs" /\ ~cnIn.contained) =>
        /\ cnResult.err = "nil"
        /\ cnIn.hash \in DOMAIN dbPendingEtxs /\ dbPendingEtxs[cnIn.hash] = cnIn.etxs
        /\ cnIn.hash \in DOMAIN pendingEtxs /\ pendingEtxs[cnIn.hash] = cnIn.etxs
        /\ CollectEtxsForManifestOf(pendingEtxs, dbPendingEtxs, <<cnIn.hash>>) =
              [etxs |-> cnIn.etxs[1] \o cnIn.etxs[2] \o cnIn.etxs[3], err |-> "nil"]

\* the ETXs of a new hash are stored and found, whatever AddPendingEtxs returned
C40_NewHashStored ==
    (cnIn.op = "AddPendingEtxs" /\ ~cnIn.contained) =>
        /\ cnIn.hash \in DOMAIN dbPendingEtxs /\ dbPendingEtxs[cnIn.hash] = cnIn.etxs
        /\ cnIn.hash \in DOMAIN pendingEtxs /\ pendingEtxs[cnIn.hash] = cnIn.etxs
        /\ CollectEtxsForManifestOf(pendingEtxs, dbPendingEtxs, <<cnIn.hash>>) =
              [etxs |-> cnIn.etxs[1] \o cnIn.etxs[2] \o cnIn.etxs[3], err |-> "nil"]


(***************************************************************************)
(*   consensus/progpow/consensus.go: VerifyHeaders, the dispatcher         *)
(*   goroutine, the worker goroutines and the channels between them        *)
(***************************************************************************)
\* Bounds of the batch model.
MaxBatch == 3        \* longest headers slice
MaxGoProcs == 2      \* runtime.GOMAXPROCS(0) is drawn from 1..MaxGoProcs

\* what verifyHeaderWorker returns for a header
WorkerOutcomes == {"nil", "unknown ancestor"}

BatchInputs ==
    [errs : UNION {[1 .. n -> WorkerOutcomes] : n \in 0 .. MaxBatch},
     gomaxprocs : 1 .. MaxGoProcs,
     fake : BOOLEAN]

BatchOnly == UNCHANGED <<etxVars, genVars, txVars, vhVars, sliceVars>>

\* a dispatcher that sends the result of an index as soon as a worker is done with it
DeliverableAsDone(index, checked, out, n) == <<index>>

\* lines 146-151: the indices whose results the dispatcher sends after a worker
\* is done: from out on, as long as they are checked
RECURSIVE Deliverable(_, _, _, _)
Deliverable(index, checked, out, n) ==
    IF out < n /\ out \in checked
       THEN <<out>> \o Deliverable(index, checked, out + 1, n)
    ELSE <<>>

BatchInit ==
    /\ vbIn \in BatchInputs
    /\ inputs = "open"
    /\ done = <<>>
    /\ errors = <<>>
    /\ errorsOut = <<>>
    /\ abort = FALSE
    /\ dispatcher = [pc |-> "call", in |-> 0, out |-> 0, checked |-> {}, inputsNil |-> FALSE]
    /\ worker = <<>>

\* VerifyHeaders up to its return, lines 81-157: the results of a faked or empty
\* batch are on the channel at once, otherwise the goroutines are started
VerifyHeaders ==
    LET n == Len(vbIn.errs)
        workers == IF n < vbIn.gomaxprocs THEN n ELSE vbIn.gomaxprocs
    IN /\ dispatcher.pc = "call"
       /\ IF vbIn.fake \/ n = 0
             THEN /\ errorsOut' = [i \in 1 .. n |-> [index |-> i - 1, err |-> "nil"]]
                  /\ dispatcher' = [dispatcher EXCEPT !.pc = "none"]
                  /\ UNCHANGED <<errors, worker>>
          ELSE /\ errors' = [i \in 1 .. n |-> "unset"]
               /\ worker' = [w \in 1 .. workers |-> [pc |-> "recv", index |-> 0]]
               /\ dispatcher' = [dispatcher EXCEPT !.pc = "select"]
               /\ UNCHANGED errorsOut
       /\ UNCHANGED <<vbIn, inputs, done, abort>>
       /\ BatchOnly

\* case inputs <- in, lines 140-144, received by worker w at line 115
DispatcherInput(w) ==
    /\ dispatcher.pc = "select"
    /\ ~dispatcher.inputsNil
    /\ w \in DOMAIN worker
    /\ worker[w].pc = "recv"
    /\ worker' = [worker EXCEPT ![w] = [pc |-> "verify", index |-> dispatcher.in]]
    /\ dispatcher' = [dispatcher EXCEPT !.in = @ + 1,
                                        !.inputsNil = (dispatcher.in + 1 = Len(vbIn.errs))]
    /\ UNCHANGED <<vbIn, inputs, done, errors, errorsOut, abort>>
    /\ BatchOnly

\* errors[index] = progpow.verifyHeaderWorker(...), line 116
WorkerVerify(w) ==
    /\ w \in DOMAIN worker
    /\ worker[w].pc = "verify"
    /\ errors' = [errors EXCEPT ![worker[w].index + 1] = vbIn.errs[worker[w].index + 1]]
    /\ worker' = [worker EXCEPT ![w].pc = "send"]
    /\ UNCHANGED <<vbIn, inputs, done, errorsOut, abort, dispatcher>>
    /\ BatchOnly

\* done <- index, line 117: blocks while the buffer holds `workers` indices
WorkerDone(w) ==
    /\ w \in DOMAIN worker
    /\ worker[w].pc = "send"
    /\ Len(done) < Len(worker)
    /\ done' = Append(done, worker[w].index)
    /\ worker' = [worker EXCEPT ![w].pc = "recv"]
    /\ UNCHANGED <<vbIn, inputs, errors, errorsOut, abort, dispatcher>>
    /\ BatchOnly

\* for index := range inputs ends when inputs is closed, line 115
WorkerExit(w) ==
    /\ w \in DOMAIN worker
    /\ worker[w].pc = "recv"
    /\ inputs = "closed"
    /\ worker' = [worker EXCEPT ![w].pc = "exit"]
    /\ UNCHANGED <<vbIn, inputs, done, errors, errorsOut, abort, dispatcher>>
    /\ BatchOnly

\* case index := <-done, lines 145-151; the dispatcher returns after the result
\* of the last header and its deferred close(inputs) runs
DispatcherDone ==
    /\ dispatcher.pc = "select"
    /\ done # <<>>
    /\ LET n == Len(vbIn.errs)
           index == Head(done)
           checked == dispatcher.checked \cup {index}
           sent == Deliverable(index, checked, dispatcher.out, n)
           returns == \E k \in DOMAIN sent : sent[k] = n - 1
       IN /\ done' = Tail(done)
          /\ errorsOut' = errorsOut \o
                [k \in DOMAIN sent |-> [index |-> sent[k], err |-> errors[sent[k] + 1]]]
          /\ dispatcher' = [dispatcher EXCEPT
                !.checked = checked,
                !.out = IF returns THEN n - 1 ELSE dispatcher.out + Len(sent),
                !.pc = IF returns THEN "returned" ELSE "select"]
          /\ inputs' = IF returns THEN "closed" ELSE inputs
    /\ UNCHANGED <<vbIn, errors, abort, worker>>
    /\ BatchOnly

\* case <-abort, lines 152-153, and the deferred close(inputs), line 132
DispatcherAbort ==
    /\ dispatcher.pc = "select"
    /\ abort
    /\ dispatcher' = [dispatcher EXCEPT !.pc = "returned"]
    /\ inputs' = "closed"
    /\ UNCHANGED <<vbIn, done, errors, errorsOut, abort, worker>>
    /\ BatchOnly

\* the caller closes the abort channel VerifyHeaders returned
CloseAbort ==
    /\ dispatcher.pc # "call"
    /\ ~abort
    /\ abort' = TRUE
    /\ UNCHANGED <<vbIn, inputs, done, errors, errorsOut, dispatcher, worker>>
    /\ BatchOnly

GoProcs == 1 .. MaxGoProcs

BatchNext ==
    \/ VerifyHeaders
    \/ \E w \in GoProcs : DispatcherInput(w)
    \/ \E w \in GoProcs : WorkerVerify(w)
    \/ \E w \in GoProcs : WorkerDone(w)
    \/ \E w \in GoProcs : WorkerExit(w)
    \/ DispatcherDone
    \/ DispatcherAbort
    \/ CloseAbort

\* every goroutine that can run does run, and a select with several ready cases
\* does not ignore one of them forever
BatchFair ==
    /\ WF_vars(VerifyHeaders)
    /\ \A w \in GoProcs :
          /\ WF_vars(WorkerVerify(w))
          /\ WF_vars(WorkerDone(w))
          /\ WF_vars(WorkerExit(w))
    /\ SF_vars(\E w \in GoProcs : DispatcherInput(w))
    /\ SF_vars(DispatcherDone)
    /\ SF_vars(DispatcherAbort)

\* ---------------------------------------------------------------------------
\* Claims about VerifyHeaders
\* ---------------------------------------------------------------------------

\* the results of the batch, one per header, in the order of the headers
BatchExpected ==
    [i \in 1 .. Len(vbIn.errs) |->
        [index |-> i - 1, err |-> IF vbIn.fake THEN "nil" ELSE vbIn.errs[i]]]

\* C35: VerifyHeaders delivers on its results channel exactly one result per
\* input header, in input order, for any number of workers and any order in
\* which the workers finish.
C35_OneResultEachInOrder ==
    /\ [](/\ Len(errorsOut) <= Len(BatchExpected)
          /\ errorsOut = SubSeq(BatchExpected, 1, Len(errorsOut)))
    /\ ([]~abort) => <>[](errorsOut = BatchExpected)

\* two workers have verified three headers with different outcomes and the
\* dispatcher has returned after the third result
C35_Witness ==
    /\ ~vbIn.fake
    /\ ~abort
    /\ Len(worker) = 2
    /\ Len(vbIn.errs) = 3
    /\ vbIn.errs[2] # vbIn.errs[1]
    /\ dispatcher.pc = "returned"
    /\ Len(errorsOut) = 3

\* C36: after the caller closes the abort channel returned by VerifyHeaders, at
\* any point of the batch, the dispatcher goroutine and every worker goroutine
\* terminate: no goroutine stays blocked forever on the inputs, done or results
\* channel.
C36_AbortStopsAll ==
    abort ~> (/\ dispatcher.pc \in {"none", "returned"}
              /\ \A w \in DOMAIN worker : worker[w].pc = "exit")


(***************************************************************************)
(*   consensus/progpow/consensus.go: verifyHeader on a Zone chain, the     *)
(*   Prime terminus of each header (lines 461-481)                         *)
(***************************************************************************)
\* Bounds of the Zone chain model.
MaxZoneChain == 4    \* headers of the chain, the genesis block included

\* a rule that takes the Prime terminus of the parent whenever the parent is
\* not of Prime order
ExpectedOfParentOrder(parent) ==
    IF parent.order = PRIME_CTX THEN parent.hash ELSE parent.primeTerminusHash

\* lines 461-475: expectedPrimeTerminusHash; parent.order is what CalcOrder
\* gives for the parent, parent.genesis is chain.IsGenesisHash(parent.Hash())
ExpectedPrimeTerminusHash(parent) ==
    IF parent.order = PRIME_CTX THEN parent.hash
    ELSE IF parent.genesis THEN parent.hash
    ELSE parent.primeTerminusHash

\* lines 476-481; numberOK tells whether header.PrimeTerminusNumber() is the
\* expected number
PrimeTerminusErr(parent, header, numberOK) ==
    IF header.primeTerminusHash # ExpectedPrimeTerminusHash(parent)
       THEN "invalid primeTerminusHash"
    ELSE IF ~numberOK THEN "invalid primeTerminusNumber"
    ELSE "nil"

\* the chain holds the genesis block: its order and its Prime terminus field
\* are whatever the genesis block has
TerminusInit ==
    /\ zoneChain \in {<<[hash |-> GenesisHash, order |-> o, primeTerminusHash |-> p,
                         genesis |-> TRUE]>> : o \in Contexts, p \in {Nil, GenesisHash}}
    /\ ptResult = "pending"
    /\ vhIn = Nil
    /\ vhResult = Nil
    /\ exIn = Nil
    /\ exResult = Nil
    /\ cdIn = Nil
    /\ cdResult = Nil

\* verifyHeader at a Zone node for a header on the last accepted header, every
\* rule before line 461 satisfied; an accepted header extends the chain
VerifyZoneHeader(order, primeTerminusHash, numberOK) ==
    LET parent == zoneChain[Len(zoneChain)]
        header == [hash |-> parent.hash + 1, order |-> order,
                   primeTerminusHash |-> primeTerminusHash, genesis |-> FALSE]
        err == PrimeTerminusErr(parent, header, numberOK)
    IN /\ Len(zoneChain) < MaxZoneChain
       /\ ptResult' = err
       /\ zoneChain' = IF err = "nil" THEN Append(zoneChain, header) ELSE zoneChain
       /\ UNCHANGED <<vhIn, vhResult, exIn, exResult, cdIn, cdResult>>
       /\ UNCHANGED <<etxVars, genVars, txVars, batchVars, sliceVars>>

TerminusNext ==
    \E order \in Contexts, primeTerminusHash \in 0 .. (GenesisHash + MaxZoneChain),
       numberOK \in BOOLEAN : VerifyZoneHeader(order, primeTerminusHash, numberOK)

\* ---------------------------------------------------------------------------
\* Claims about the Prime terminus
\* ---------------------------------------------------------------------------

\* C39: in every Zone chain accepted by verifyHeader, each header's
\* prime_terminus_hash points at its last Prime-order ancestor: it equals the
\* parent's hash if the parent's order is Prime and otherwise equals the
\* parent's prime_terminus_hash.
C39_PrimeTerminusOfParent ==
    \A k \in 2 .. Len(zoneChain) :
        zoneChain[k].primeTerminusHash =
            IF zoneChain[k - 1].order = PRIME_CTX THEN zoneChain[k - 1].hash
            ELSE zoneChain[k - 1].primeTerminusHash

\* the last ancestor of header k that is of Prime order or the genesis block
LastPrimeOrGenesis(k) ==
    CHOOSE j \in 1 .. (k - 1) :
        /\ zoneChain[j].order = PRIME_CTX \/ j = 1
        /\ \A i \in (j + 1) .. (k - 1) : zoneChain[i].order # PRIME_CTX

\* C39, with the genesis block: each accepted header's prime_terminus_hash is
\* the hash of its last ancestor that is of Prime order or is the genesis
\* block; it equals the parent's hash if the parent's order is Prime or the
\* parent is the genesis block, and otherwise the parent's prime_terminus_hash.
C39_PrimeTerminusOrGenesis ==
    \A k \in 2 .. Len(zoneChain) :
        /\ zoneChain[k].primeTerminusHash = zoneChain[LastPrimeOrGenesis(k)].hash
        /\ zoneChain[k].primeTerminusHash =
              IF zoneChain[k - 1].order = PRIME_CTX \/ zoneChain[k - 1].genesis
                 THEN zoneChain[k - 1].hash
              ELSE zoneChain[k - 1].primeTerminusHash

\* a chain on a genesis block that is not of Prime order: the second and third
\* headers point at the genesis block, the fourth at the third, of Prime order
C39_Witness ==
    /\ Len(zoneChain) = 4
    /\ ptResult = "nil"
    /\ zoneChain[1].order # PRIME_CTX
    /\ zoneChain[1].primeTerminusHash # GenesisHash
    /\ zoneChain[2].order # PRIME_CTX
    /\ zoneChain[3].order = PRIME_CTX
    /\ zoneChain[3].primeTerminusHash = GenesisHash
    /\ zoneChain[4].primeTerminusHash = zoneChain[3].hash

(***************************************************************************)
(*                           Specifications                                *)
(***************************************************************************)
\* Each component is checked by a specification of its own, in which the
\* variables of the other components rest at an idle value.
EtxIdle == EtxInit

GenIdle ==
    /\ genBpm = 0
    /\ genAccount = Nil
    /\ genPc = "idle"
    /\ genBlock = 0
    /\ genBalance = 0
    /\ genCredited = {}

TxIdle ==
    /\ txInput = <<>>
    /\ txs = <<>>
    /\ heads = <<>>
    /\ txPc = "idle"
    /\ txPeeked = Nil
    /\ txOp = Nil

VhIdle ==
    /\ zoneChain = Nil
    /\ ptResult = Nil
    /\ vhIn = Nil
    /\ vhResult = Nil
    /\ exIn = Nil
    /\ exResult = Nil
    /\ cdIn = Nil
    /\ cdResult = Nil

SliceIdle ==
    /\ nodeCtx = ZONE_CTX
    /\ dbHeaders = {}
    /\ dbTermini = <<>>
    /\ dbTd = <<>>
    /\ currentHead = Nil
    /\ phCache = <<>>
    /\ pendingHeaderHeadHash = Nil
    /\ futureHeaders = {}
    /\ phCachemu = Nil
    /\ pc = <<>>
    /\ call = <<>>
    /\ appendResult = Nil
    /\ lastEvent = NoEvent
    /\ minerFeed = NoFeed
    /\ relay = Nil
    /\ reader = Nil
    /\ sweep = Nil
    /\ addResult = Nil

HierIdle ==
    /\ hLock = <<>>
    /\ hStack = <<>>

BatchIdle ==
    /\ vbIn = Nil
    /\ inputs = Nil
    /\ done = <<>>
    /\ errors = <<>>
    /\ errorsOut = <<>>
    /\ abort = FALSE
    /\ dispatcher = Nil
    /\ worker = <<>>

PendIdle ==
    /\ pendingEtxs = <<>>
    /\ dbPendingEtxs = <<>>
    /\ cnIn = Nil
    /\ cnResult = Nil

Init == SliceInit /\ EtxIdle /\ GenIdle /\ TxIdle /\ VhIdle /\ HierIdle /\ PendIdle /\ BatchIdle
InitEtx == EtxInit /\ GenIdle /\ TxIdle /\ VhIdle /\ SliceIdle /\ HierIdle /\ PendIdle /\ BatchIdle
InitGenesis == GenInit /\ EtxIdle /\ TxIdle /\ VhIdle /\ SliceIdle /\ HierIdle /\ PendIdle /\ BatchIdle
InitTxs == TxInit /\ EtxIdle /\ GenIdle /\ VhIdle /\ SliceIdle /\ HierIdle /\ PendIdle /\ BatchIdle
InitVerify == VhInit /\ EtxIdle /\ GenIdle /\ TxIdle /\ SliceIdle /\ HierIdle /\ PendIdle /\ BatchIdle
InitExpansion == ExInit /\ EtxIdle /\ GenIdle /\ TxIdle /\ SliceIdle /\ HierIdle /\ PendIdle /\ BatchIdle
InitDifficulty == CdInit /\ EtxIdle /\ GenIdle /\ TxIdle /\ SliceIdle /\ HierIdle /\ PendIdle /\ BatchIdle
InitHier == HierInit /\ EtxIdle /\ GenIdle /\ TxIdle /\ VhIdle /\ SliceIdle /\ PendIdle /\ BatchIdle
InitRace == SliceInitOf(RaceProcs) /\ EtxIdle /\ GenIdle /\ TxIdle /\ VhIdle /\ HierIdle /\ PendIdle /\ BatchIdle

Next == SliceNext

Spec == Init /\ [][Next]_vars
SpecEtx == InitEtx /\ [][EtxNext]_vars
SpecGenesis == InitGenesis /\ [][GenNext]_vars
SpecTxs == InitTxs /\ [][TxNext]_vars
SpecVerify == InitVerify /\ [][VhNext]_vars
SpecFuture == Init /\ [][FutureNext]_vars
SpecExpansion == InitExpansion /\ [][ExNext]_vars
SpecDifficulty == InitDifficulty /\ [][CdNext]_vars
SpecHier == InitHier /\ [][HierNext]_vars

InitCollect == CollectInit /\ EtxIdle /\ GenIdle /\ TxIdle /\ VhIdle /\ SliceIdle /\ HierIdle /\ BatchIdle
SpecCollect == InitCollect /\ [][CollectNext]_vars

InitBatch == BatchInit /\ EtxIdle /\ GenIdle /\ TxIdle /\ VhIdle /\ SliceIdle /\ HierIdle /\ PendIdle
SpecBatch == InitBatch /\ [][BatchNext]_vars /\ BatchFair

InitTerminus == TerminusInit /\ EtxIdle /\ GenIdle /\ TxIdle /\ SliceIdle /\ HierIdle /\ PendIdle /\ BatchIdle
SpecTerminus == InitTerminus /\ [][TerminusNext]_vars

InitPending == PendingInit /\ EtxIdle /\ GenIdle /\ TxIdle /\ VhIdle /\ SliceIdle /\ HierIdle /\ BatchIdle
SpecPending == InitPending /\ [][PendingNext]_vars
\* The steps of an Append that run on the node itself are taken sooner or later.
\* The step that needs the answer of the subordinate is not: the call at line 696
\* is made with context.Background(), which carries no deadline, so nothing on
\* the node ends the wait for a subordinate that does not answer.
LocalStepsFair ==
    \A p \in RaceProcs :
        /\ WF_vars(AppendBlock(p))
        /\ WF_vars(AppendLock(p))
        /\ WF_vars(nodeCtx = ZONE_CTX /\ AppendSub(p))
        /\ WF_vars(AppendWrite(p))
        /\ WF_vars(SetHeaderChainHead(p))
        /\ WF_vars(AppendCache(p))
SpecSilentSub == InitRace /\ [][RaceNext]_vars /\ LocalStepsFair
SpecRetry == Init /\ [][RetryNext]_vars /\ RetryFair
SpecPick == Init /\ [][PickNext]_vars
SpecRace == InitRace /\ [][RaceNext]_vars

====
